---- MODULE Spec2Model ----
(***************************************************************************)
(* Winterns: the execution orchestrator (execution/executor.py), the run   *)
(* lifecycle and scheduling operations (execution/service.py), the poll    *)
(* job (execution/scheduler.py), the manual trigger (execution/router.py)  *)
(* and the wintern CRUD operations that decide which schedules can reach   *)
(* the orchestrator (winterns/service.py).                                 *)
(*                                                                         *)
(* One execution of execute_wintern is a sequence of steps, one action per *)
(* awaited call.  Database failures (a flush or commit that raises) are    *)
(* not modelled; every other exception the code can see is.                *)
(***************************************************************************)
EXTENDS Integers, Sequences, FiniteSets, TLC

\* ---------------------------------------------------------------- bounds
MaxTime == 4        \* the clock runs 0..MaxTime
MaxRuns == 2        \* runs of a wintern with one source and one channel
MaxQueries == 2     \* queries the interpreter may return (the code allows 1..10)
MaxUpdates == 1     \* CRUD requests (update_wintern / delete_wintern) in one behaviour
MaxRef == 100       \* reference times of a direct call of calculate_next_run_at
CronPeriod == 2     \* the valid schedule of the model fires at every multiple of it

\* ---------------------------------------------------------------- values
Winterns == {"w1"}
Tasks == {"sched", "manual"}
URLs == {"u1", "u2"}
NULL == "<null>"

\* winterns/models.py
SourceType == {"brave_search", "reddit", "rss", "news_api"}
DeliveryType == {"slack", "email", "sms"}
\* execution/models.py
RunStatus == {"pending", "running", "completed", "failed"}

\* A cron_schedule column: absent, a parseable expression (fires at every
\* time that is offset modulo period), or a string croniter rejects.
NoCron == [present |-> FALSE, valid |-> FALSE, period |-> 0, offset |-> 0]
BadCron == [present |-> TRUE, valid |-> FALSE, period |-> 0, offset |-> 0]
EveryCron == [present |-> TRUE, valid |-> TRUE, period |-> CronPeriod, offset |-> 0]
CronValues == {NoCron, BadCron, EveryCron}

\* "0 9 * * *" with the time counted in half hours from midnight of day 0:
\* 48 half hours a day, 09:00 is half hour 18.
DailyAtNine == [present |-> TRUE, valid |-> TRUE, period |-> 48, offset |-> 18]

Cfg(type, active) == [type |-> type, is_active |-> active]

\* The configurations a wintern is created with, and how far the model
\* follows each: how many runs, how many CRUD requests, and whether the
\* calls of execute_wintern may overlap or come one after the other.
Profile(sources, deliveries, n_runs, n_updates) ==
    [ sources |-> sources, deliveries |-> deliveries,
      budget |-> [ runs |-> n_runs, updates |-> n_updates, overlap |-> FALSE ] ]
OneSource == << Cfg("brave_search", TRUE) >>
OneChannel == << Cfg("slack", TRUE) >>
Profiles ==
    { \* no active source, no active channel
      Profile(<< Cfg("brave_search", FALSE) >>, OneChannel, MaxRuns, MaxUpdates),
      Profile(OneSource, << Cfg("slack", FALSE) >>, MaxRuns, MaxUpdates),
      \* one source and one channel
      Profile(OneSource, OneChannel, 1, MaxUpdates),
      Profile(OneSource, OneChannel, MaxRuns, 0),
      \* several sources, several channels
      Profile(<< Cfg("rss", TRUE), Cfg("brave_search", TRUE), Cfg("reddit", FALSE),
                 Cfg("reddit", TRUE) >>, OneChannel, 1, 0),
      Profile(<< Cfg("reddit", TRUE) >>,
              << Cfg("email", TRUE), Cfg("slack", TRUE), Cfg("sms", FALSE),
                 Cfg("slack", TRUE) >>, 1, 0) }

\* What one search call returns: a list of result URLs.
SearchReturns == { << >>, << "u1" >>, << "u2", "u1" >> }

\* ---------------------------------------------------------------- helpers
\* [x for x in s if x.is_active]
ActiveOf(s) == SelectSeq(s, LAMBDA c : c.is_active)

Min(S) == CHOOSE x \in S : \A y \in S : x <= y

\* service.compute_content_hash: the hex SHA-256 of the URL, an injective
\* map from URLs into a domain of digests disjoint from the URLs.
compute_content_hash(url) == << "sha256", url >>

\* croniter rejects an unparseable expression with an exception.
CronRaises(cron) == ~cron.valid

\* calculate_next_run_at with a get_next that returns the base time itself
\* when the schedule fires at it.
calculate_from_base_inclusive(cron, base) ==
    Min({ t \in base..(base + cron.period - 1) : t % cron.period = cron.offset })

\* service.calculate_next_run_at: croniter(cron, base).get_next(), the first
\* firing time strictly after base.
calculate_next_run_at(cron, base) ==
    Min({ t \in (base + 1)..(base + cron.period) : t % cron.period = cron.offset })

\* factories.create_data_source: the adapter's source_name, or unsupported.
Unsupported == "unsupported"
\* A factory with an adapter for every type tag.
create_source_of_any_type(cfg) == cfg.type

create_data_source(cfg) ==
    CASE cfg.type = "brave_search" -> "brave_search"
      [] cfg.type = "reddit" -> "reddit"
      [] cfg.type \in {"rss", "news_api"} -> Unsupported
      [] OTHER -> Unsupported

\* factories.create_delivery_channel: the channel's channel_name, or unsupported.
create_delivery_channel(cfg) ==
    CASE cfg.type = "slack" -> "slack"
      [] cfg.type \in {"email", "sms"} -> Unsupported
      [] OTHER -> Unsupported

\* ---------------------------------------------------------------- state
VARIABLES
    now,        \* the clock, datetime.now(UTC)
    winterns,   \* the committed winterns table
    runs,       \* the wintern_runs table; a run's id is its index
    seen,       \* the seen_content table
    ex,         \* per task: the locals of its execute_wintern call
    due,        \* the poll job: the due winterns it still has to execute
    budget,     \* the runs and CRUD requests the behaviour may still hold
    call        \* a direct call of a service function: its arguments and result

vars == << now, winterns, runs, seen, ex, due, budget, call >>

\* No direct call: the state of `call` in the specifications of the executor.
NoCall == [ op |-> "none" ]

NewMetadata ==
    [ total_searched |-> 0, new_content |-> 0, curated |-> 0,
      source_errors |-> << >>, deliveries |-> << >> ]

IdleEx ==
    [ pc |-> "idle", wid |-> NULL, run |-> 0, cron |-> NoCron,
      next_run_at |-> {}, loaded_next |-> {}, wrote_next |-> FALSE,
      metadata |-> NewMetadata,
      active_sources |-> << >>, active_deliveries |-> << >>,
      queries |-> 0, si |-> 1, qi |-> 1, all_results |-> << >>,
      new_results |-> << >>, items |-> << >>, digest |-> NULL, di |-> 1,
      exc |-> NULL, exc_msg |-> NULL, exit |-> NULL, ri |-> 1, inserted |-> 0 ]

\* The calls a run has made, kept with the run for the properties; the run
\* also keeps the URLs its searches found.
NoCalls ==
    [ interpret |-> 0, curate |-> 0, compose |-> 0, record |-> 0,
      search |-> << >>, deliver |-> << >>, reschedule |-> 0 ]

Busy(t) == ex[t].pc # "idle"
OthersIdle(t) == budget.overlap \/ \A u \in Tasks \ {t} : ~Busy(u)

\* ---------------------------------------------------------------- service.py
\* create_run: a new record in PENDING status.
create_run(wid, by) ==
    [ wintern_id |-> wid, status |-> "pending", error_message |-> NULL,
      digest_content |-> NULL, metadata |-> NULL, tx |-> "open",
      trail |-> << "pending" >>, by |-> by, called_at |-> now,
      cron |-> winterns[wid].cron_schedule, calls |-> NoCalls,
      exit |-> NULL, next_at_exit |-> {}, found |-> << >>,
      batch |-> << >>, inserted |-> 0, delivered |-> {},
      overlaps |-> \E u \in Tasks \ {by} : Busy(u),
      started_at |-> {}, completed_at |-> {} ]

\* start_run followed by a commit of the session.
start_run_and_commit(run) ==
    [ run EXCEPT !.status = "running", !.trail = Append(@, "running"),
                 !.started_at = { now }, !.tx = "committed" ]

\* start_run: run.status = RUNNING.
start_run(run) ==
    [ run EXCEPT !.status = "running", !.trail = Append(@, "running"),
                 !.started_at = { now } ]

\* complete_run: run.status = COMPLETED, digest and metadata stored.
complete_run(run, digest_content, metadata) ==
    [ run EXCEPT !.status = "completed", !.trail = Append(@, "completed"),
                 !.completed_at = { now },
                 !.digest_content = digest_content, !.metadata = metadata ]

\* fail_run without the assignment of completed_at.
fail_run_without_completed_at(run, error_message, metadata) ==
    [ run EXCEPT !.status = "failed", !.trail = Append(@, "failed"),
                 !.error_message = error_message, !.metadata = metadata ]

\* fail_run: run.status = FAILED, completed_at, error message and metadata
\* stored.
fail_run(run, error_message, metadata) ==
    [ run EXCEPT !.status = "failed", !.trail = Append(@, "failed"),
                 !.completed_at = { now },
                 !.error_message = error_message, !.metadata = metadata ]

\* A session that reads only the rows of its own transaction.
VisibleOwnRows(t) ==
    { row \in seen : row.run_id = ex[t].run }

\* The rows a task's session reads: those of committed transactions and
\* those its own transaction (the one of its run) has written.
Visible(t) ==
    { row \in seen : row.run_id = ex[t].run \/ runs[row.run_id].tx = "committed" }

\* get_seen_hashes: every hash recorded for the wintern.
get_seen_hashes(t, wid) ==
    { row.content_hash : row \in { r \in Visible(t) : r.wintern_id = wid } }

\* The deduplication loop without line 272: the hash of a kept result is
\* not added to the in-memory set.
RECURSIVE DedupAgainstStoreOnly(_, _)
DedupAgainstStoreOnly(results, seen_hashes) ==
    IF results = << >> THEN << >>
    ELSE LET h == compute_content_hash(Head(results).url)
         IN  IF h \in seen_hashes
             THEN DedupAgainstStoreOnly(Tail(results), seen_hashes)
             ELSE << Head(results) >> \o DedupAgainstStoreOnly(Tail(results), seen_hashes)

\* The deduplication loop of execute_wintern: keep a result whose hash is
\* not in the seen set, and add the hash of every kept result to the set.
RECURSIVE Dedup(_, _)
Dedup(results, seen_hashes) ==
    IF results = << >> THEN << >>
    ELSE LET h == compute_content_hash(Head(results).url)
         IN  IF h \in seen_hashes
             THEN Dedup(Tail(results), seen_hashes)
             ELSE << Head(results) >> \o Dedup(Tail(results), seen_hashes \cup {h})

\* A new row of seen_content.  Its id tells it from every row of the table:
\* the key it is stored under and how many rows the table holds for that key.
SeenRow(table, wid, run_id, item) ==
    LET h == compute_content_hash(item.url)
    IN  [ id |-> << wid, h, Cardinality({ r \in table :
                                           r.wintern_id = wid /\ r.content_hash = h }) + 1 >>,
          wintern_id |-> wid, run_id |-> run_id, content_hash |-> h,
          source_type |-> item.source, source_url |-> item.url, seen_at |-> now ]

\* The arbiter over content_hash alone, whatever the wintern.
ConflictOnHashOnly(table, wid, item) ==
    \E r \in table : r.content_hash = compute_content_hash(item.url)

\* The arbiter of ON CONFLICT (wintern_id, content_hash): a row of the
\* table, or an earlier row of the same statement, holds the key.
Conflict(table, wid, item) ==
    \E r \in table : r.wintern_id = wid /\ r.content_hash = compute_content_hash(item.url)

\* The insert with every row checked against the table as it was before the
\* statement: two rows of one statement with the same key are both stored.
RECURSIVE insert_checked_before_statement(_, _, _, _)
insert_checked_before_statement(table, wid, run_id, items) ==
    IF items = << >> THEN table
    ELSE LET rest == insert_checked_before_statement(table, wid, run_id,
                                                     SubSeq(items, 1, Len(items) - 1))
             last == items[Len(items)]
         IN  IF Conflict(table, wid, last)
             THEN rest
             ELSE rest \cup { SeenRow(rest, wid, run_id, last) }

\* ON CONFLICT ... DO UPDATE: the row that holds the key is overwritten with
\* the values of the new one.
on_conflict_do_update(table, wid, run_id, item) ==
    LET old == { r \in table : /\ r.wintern_id = wid
                               /\ r.content_hash = compute_content_hash(item.url) }
    IN  (table \ old) \cup
        { [ r EXCEPT !.run_id = run_id, !.source_type = item.source,
                     !.source_url = item.url, !.seen_at = now ] : r \in old }

\* ON CONFLICT ... DO NOTHING: the table keeps the row it has.
on_conflict_do_nothing(table, wid, run_id, item) == table

\* record_seen_content_batch: INSERT ... ON CONFLICT (wintern_id,
\* content_hash) DO NOTHING, the rows taken in the order of the list.
RECURSIVE record_seen_content_batch(_, _, _, _)
record_seen_content_batch(table, wid, run_id, items) ==
    IF items = << >> THEN table
    ELSE record_seen_content_batch(
             IF Conflict(table, wid, Head(items))
             THEN on_conflict_do_nothing(table, wid, run_id, Head(items))
             ELSE table \cup { SeenRow(table, wid, run_id, Head(items)) },
             wid, run_id, Tail(items))

\* get_due_winterns: active, next_run_at not null and <= as_of.
get_due_winterns(as_of) ==
    { w \in DOMAIN winterns : /\ winterns[w].is_active
                       /\ \E t \in winterns[w].next_run_at : t <= as_of }

\* update_next_run_at on the session's wintern: raises when croniter
\* rejects the schedule, else writes the next firing time, or None when the
\* wintern has no schedule.
update_next_run_at_raises(e) == e.cron.present /\ CronRaises(e.cron)
update_next_run_at(e) ==
    [ e EXCEPT !.next_run_at =
                   IF e.cron.present THEN { calculate_next_run_at(e.cron, now) }
                   ELSE {},
               !.wrote_next = TRUE ]

\* ---------------------------------------------------------------- executor.py
Raise(e, exc, msg) == [ e EXCEPT !.pc = "handler", !.exc = exc, !.exc_msg = msg ]

Called(run, what) == [ run EXCEPT !.calls[what] = @ + 1 ]

\* All sub-lists of a list (the curator keeps any part of its input).
SubLists(s) ==
    { SelectSeq([ i \in 1..Len(s) |-> << i, s[i] >> ], LAMBDA p : p[1] \in keep)
        : keep \in SUBSET (1..Len(s)) }
Items(pairs) == [ i \in 1..Len(pairs) |-> pairs[i][2] ]

\* execute_wintern, lines 183-198: load the wintern, create the run.  The
\* session keeps the schedule columns it loaded first: a later SELECT of the
\* same row does not refresh them.
ExecuteBegin(t, wid, cron, next_run_at) ==
    /\ ~Busy(t)
    /\ OthersIdle(t)
    /\ budget.runs > 0
    /\ budget' = [ budget EXCEPT !.runs = @ - 1 ]
    /\ runs' = Append(runs, [ create_run(wid, t) EXCEPT !.cron = cron ])
    /\ ex' = [ ex EXCEPT ![t] =
                 [ IdleEx EXCEPT !.pc = "start", !.wid = wid,
                                 !.run = Len(runs) + 1, !.cron = cron,
                                 !.next_run_at = next_run_at,
                                 !.loaded_next = next_run_at ] ]
    /\ UNCHANGED << now, winterns, seen, call >>

\* Lines 200-212: start_run, then the validation of sources and deliveries.
StartRun(t) ==
    LET e == ex[t]
        active_sources == ActiveOf(winterns[e.wid].source_configs)
        active_deliveries == ActiveOf(winterns[e.wid].delivery_configs)
        e1 == [ e EXCEPT !.active_sources = active_sources,
                         !.active_deliveries = active_deliveries ]
    IN  /\ e.pc = "start"
        /\ runs' = [ runs EXCEPT ![e.run] = start_run(@) ]
        /\ ex' = [ ex EXCEPT ![t] =
                     IF active_sources = << >>
                     THEN Raise(e1, "NoSourcesConfiguredError", NULL)
                     ELSE IF active_deliveries = << >>
                     THEN Raise(e1, "NoDeliveryConfiguredError", NULL)
                     ELSE [ e1 EXCEPT !.pc = "interpret" ] ]
        /\ UNCHANGED << now, winterns, seen, due, budget, call >>

\* Lines 214-224: interpret_context raises, or returns 1..MaxQueries queries.
Interpret(t) ==
    LET e == ex[t]
    IN  /\ e.pc = "interpret"
        /\ runs' = [ runs EXCEPT ![e.run] = Called(@, "interpret") ]
        /\ \/ ex' = [ ex EXCEPT ![t] = Raise(e, "Exception", "interpreter failed") ]
           \/ \E n \in 1..MaxQueries :
                ex' = [ ex EXCEPT ![t] =
                          [ e EXCEPT !.pc = "search", !.queries = n,
                                     !.si = 1, !.qi = 1 ] ]
        /\ UNCHANGED << now, winterns, seen, due, budget, call >>

\* The loop header of lines 228-231 after one pass: the next pair, or the end
\* of the search phase (line 254).
AfterPair(e, next_source) ==
    LET si == IF next_source \/ e.qi >= e.queries THEN e.si + 1 ELSE e.si
        qi == IF next_source \/ e.qi >= e.queries THEN 1 ELSE e.qi + 1
    IN  IF si > Len(e.active_sources)
        THEN [ e EXCEPT !.pc = "dedup", !.si = si, !.qi = qi,
                        !.metadata.total_searched = Len(e.all_results) ]
        ELSE [ e EXCEPT !.si = si, !.qi = qi ]

\* Search with the try block around the loop over the queries: a failing
\* pair ends the searches of its source.
SearchLeavesSourceOnFailure(t) ==
    LET e == ex[t]
        cfg == e.active_sources[e.si]
        source == create_data_source(cfg)
    IN  /\ e.pc = "search"
        /\ IF source = Unsupported
           THEN /\ ex' = [ ex EXCEPT ![t] =
                     AfterPair([ e EXCEPT !.metadata.source_errors =
                                   Append(@, [ prefix |-> "Unsupported source type",
                                               msg |-> cfg.type ]) ], TRUE) ]
                /\ UNCHANGED runs
           ELSE \/ /\ runs' = [ runs EXCEPT ![e.run].calls.search =
                           Append(@, [ si |-> e.si, qi |-> e.qi, raised |-> TRUE,
                                       returned |-> 0 ]) ]
                   /\ ex' = [ ex EXCEPT ![t] =
                        AfterPair([ e EXCEPT !.metadata.source_errors =
                                      Append(@, [ prefix |-> source,
                                                  msg |-> "search failed" ]) ], TRUE) ]
                \/ \E urls \in SearchReturns :
                     /\ runs' = [ runs EXCEPT ![e.run].calls.search =
                             Append(@, [ si |-> e.si, qi |-> e.qi, raised |-> FALSE,
                                         returned |-> Len(urls) ]) ]
                     /\ ex' = [ ex EXCEPT ![t] =
                          AfterPair([ e EXCEPT !.all_results = @ \o
                                        [ i \in 1..Len(urls) |->
                                            [ url |-> urls[i], source |-> source ] ] ],
                                    FALSE) ]
        /\ UNCHANGED << now, winterns, seen, due, budget, call >>

\* Lines 228-252: one pass of the search loops for the pair (si, qi).
Search(t) ==
    LET e == ex[t]
        cfg == e.active_sources[e.si]
        source == create_data_source(cfg)
    IN  /\ e.pc = "search"
        /\ IF source = Unsupported
           THEN /\ ex' = [ ex EXCEPT ![t] =
                     AfterPair([ e EXCEPT !.metadata.source_errors =
                                   Append(@, [ prefix |-> "Unsupported source type",
                                               msg |-> cfg.type ]) ], TRUE) ]
                /\ UNCHANGED runs
           ELSE \/ /\ runs' = [ runs EXCEPT ![e.run].calls.search =
                           Append(@, [ si |-> e.si, qi |-> e.qi, raised |-> TRUE,
                                       returned |-> 0 ]) ]
                   /\ ex' = [ ex EXCEPT ![t] =
                        AfterPair([ e EXCEPT !.metadata.source_errors =
                                      Append(@, [ prefix |-> source,
                                                  msg |-> "search failed" ]) ], FALSE) ]
                \/ \E urls \in SearchReturns :
                     /\ runs' = [ runs EXCEPT ![e.run].calls.search =
                             Append(@, [ si |-> e.si, qi |-> e.qi, raised |-> FALSE,
                                         returned |-> Len(urls) ]) ]
                     /\ ex' = [ ex EXCEPT ![t] =
                          AfterPair([ e EXCEPT !.all_results = @ \o
                                        [ i \in 1..Len(urls) |->
                                            [ url |-> urls[i], source |-> source ] ] ],
                                    FALSE) ]
        /\ UNCHANGED << now, winterns, seen, due, budget, call >>

\* The deduplication step with the new results stored as seen at once,
\* before the curator has run.
DedupAndRecord(t) ==
    LET e == ex[t]
        new_results == Dedup(e.all_results, get_seen_hashes(t, e.wid))
        e1 == [ e EXCEPT !.new_results = new_results,
                         !.metadata.new_content = Len(new_results) ]
    IN  /\ e.pc = "dedup"
        /\ ex' = [ ex EXCEPT ![t] =
                     IF new_results = << >>
                     THEN [ e1 EXCEPT !.pc = "complete",
                                      !.digest = "No new content found." ]
                     ELSE [ e1 EXCEPT !.pc = "curate" ] ]
        /\ runs' = [ runs EXCEPT ![e.run].found =
                         [ i \in 1..Len(e.all_results) |-> e.all_results[i].url ] ]
        /\ seen' = record_seen_content_batch(seen, e.wid, e.run, new_results)
        /\ UNCHANGED << now, winterns, due, budget, call >>

\* Lines 261-289: read the seen hashes, deduplicate, and finish early with
\* the fixed digest when nothing is new.
DedupStep(t) ==
    LET e == ex[t]
        new_results == Dedup(e.all_results, get_seen_hashes(t, e.wid))
        e1 == [ e EXCEPT !.new_results = new_results,
                         !.metadata.new_content = Len(new_results) ]
    IN  /\ e.pc = "dedup"
        /\ ex' = [ ex EXCEPT ![t] =
                     IF new_results = << >>
                     THEN [ e1 EXCEPT !.pc = "complete",
                                      !.digest = "No new content found." ]
                     ELSE [ e1 EXCEPT !.pc = "curate" ] ]
        /\ runs' = [ runs EXCEPT ![e.run].found =
                         [ i \in 1..Len(e.all_results) |-> e.all_results[i].url ] ]
        /\ UNCHANGED << now, winterns, seen, due, budget, call >>

\* curate_content followed at once by the composer, the batch insert left
\* for later.
CurateThenCompose(t) ==
    LET e == ex[t]
    IN  /\ e.pc = "curate"
        /\ runs' = [ runs EXCEPT ![e.run] = Called(@, "curate") ]
        /\ \E kept \in SubLists(e.new_results) :
             ex' = [ ex EXCEPT ![t] =
                       [ e EXCEPT !.pc = "compose", !.items = Items(kept),
                                  !.metadata.curated = Len(kept) ] ]
        /\ UNCHANGED << now, winterns, seen, due, budget, call >>

\* Lines 291-306: curate_content raises, or returns part of the items.
Curate(t) ==
    LET e == ex[t]
    IN  /\ e.pc = "curate"
        /\ runs' = [ runs EXCEPT ![e.run] = Called(@, "curate") ]
        /\ \/ ex' = [ ex EXCEPT ![t] = Raise(e, "Exception", "curator failed") ]
           \/ \E kept \in SubLists(e.new_results) :
                ex' = [ ex EXCEPT ![t] =
                          [ e EXCEPT !.pc = "record", !.items = Items(kept),
                                     !.metadata.curated = Len(kept) ] ]
        /\ UNCHANGED << now, winterns, seen, due, budget, call >>

\* Lines 314-324 after the batch insert: finish early with the fixed digest
\* when the curator kept nothing.
AfterRecord(e) ==
    IF e.items = << >>
    THEN [ e EXCEPT !.pc = "complete",
                    !.digest = "No relevant content found after curation." ]
    ELSE [ e EXCEPT !.pc = "compose" ]

\* Lines 308-324: record every new result as seen (the rowcount of the
\* insert is kept in `inserted`); finish early when the curator kept nothing.
Record(t) ==
    LET e == ex[t]
    IN  /\ e.pc = "record"
        /\ seen' = record_seen_content_batch(seen, e.wid, e.run, e.new_results)
        /\ runs' = [ runs EXCEPT ![e.run] =
                       [ Called(@, "record") EXCEPT
                           !.batch = e.new_results,
                           !.inserted = Cardinality(seen') - Cardinality(seen) ] ]
        /\ ex' = [ ex EXCEPT ![t] =
                     AfterRecord([ e EXCEPT !.inserted =
                                     Cardinality(seen') - Cardinality(seen) ]) ]
        /\ UNCHANGED << now, winterns, due, budget, call >>

\* Lines 326-345: compose_digest raises, or returns the digest.
Compose(t) ==
    LET e == ex[t]
    IN  /\ e.pc = "compose"
        /\ runs' = [ runs EXCEPT ![e.run] = Called(@, "compose") ]
        /\ \/ ex' = [ ex EXCEPT ![t] = Raise(e, "Exception", "composer failed") ]
           \/ ex' = [ ex EXCEPT ![t] =
                        [ e EXCEPT !.pc = "deliver", !.di = 1,
                                   !.digest = "digest body_plain" ] ]
        /\ UNCHANGED << now, winterns, seen, due, budget, call >>

\* The loop header of line 355 after one pass.
AfterChannel(e) ==
    IF e.di + 1 > Len(e.active_deliveries)
    THEN [ e EXCEPT !.pc = "complete", !.di = e.di + 1 ]
    ELSE [ e EXCEPT !.di = e.di + 1 ]

Logged(e, channel, success, error) ==
    [ e EXCEPT !.metadata.deliveries =
        Append(@, [ channel |-> channel, success |-> success, error |-> error ]) ]

\* Deliver without the except clause of lines 378-387: an exception of a
\* channel leaves the loop for the catch-all handler.
DeliverWithoutCatch(t) ==
    LET e == ex[t]
        cfg == e.active_deliveries[e.di]
        channel == create_delivery_channel(cfg)
    IN  /\ e.pc = "deliver"
        /\ runs' = [ runs EXCEPT ![e.run].calls.deliver = Append(@, e.di) ]
        /\ IF channel = Unsupported
           THEN ex' = [ ex EXCEPT ![t] =
                   AfterChannel(Logged(e, cfg.type, FALSE, "Unsupported delivery type")) ]
           ELSE \/ ex' = [ ex EXCEPT ![t] =
                      AfterChannel(Logged(e, channel, TRUE, NULL)) ]
                \/ ex' = [ ex EXCEPT ![t] =
                      AfterChannel(Logged(e, channel, FALSE, "delivery failed")) ]
                \/ ex' = [ ex EXCEPT ![t] = Raise(e, "Exception", "deliver raised") ]
        /\ UNCHANGED << now, winterns, seen, due, budget, call >>

\* Lines 355-387: one pass of the delivery loop for channel di.
Deliver(t) ==
    LET e == ex[t]
        cfg == e.active_deliveries[e.di]
        channel == create_delivery_channel(cfg)
    IN  /\ e.pc = "deliver"
        /\ runs' = [ runs EXCEPT ![e.run].calls.deliver = Append(@, e.di) ]
        /\ IF channel = Unsupported
           THEN ex' = [ ex EXCEPT ![t] =
                   AfterChannel(Logged(e, cfg.type, FALSE, "Unsupported delivery type")) ]
           ELSE \/ ex' = [ ex EXCEPT ![t] =
                      AfterChannel(Logged(e, channel, TRUE, NULL)) ]
                \/ ex' = [ ex EXCEPT ![t] =
                      AfterChannel(Logged(e, channel, FALSE, "delivery failed")) ]
                \/ ex' = [ ex EXCEPT ![t] =
                      AfterChannel(Logged(e, cfg.type, FALSE, "deliver raised")) ]
        /\ UNCHANGED << now, winterns, seen, due, budget, call >>

\* The URLs of the digest a task has delivered: the curated items, when a
\* channel reported success.
UrlsOf(items) == { items[i].url : i \in DOMAIN items }
DeliveredUrls(t) ==
    IF \E i \in DOMAIN ex[t].metadata.deliveries : ex[t].metadata.deliveries[i].success
    THEN UrlsOf(ex[t].items)
    ELSE {}

\* complete_run at lines 282, 317 and 390; the run keeps the URLs it has
\* delivered.
Complete(t) ==
    LET e == ex[t]
    IN  /\ e.pc = "complete"
        /\ runs' = [ runs EXCEPT ![e.run] =
                       [ complete_run(@, e.digest, e.metadata) EXCEPT
                           !.delivered = DeliveredUrls(t) ] ]
        /\ ex' = [ ex EXCEPT ![t].pc = "reschedule" ]
        /\ UNCHANGED << now, winterns, seen, due, budget, call >>

Exit(run, e, how) ==
    [ run EXCEPT !.exit = how, !.next_at_exit = e.next_run_at ]

\* update_next_run_at at lines 288, 323 and 396, then the return.  An
\* exception of update_next_run_at is inside the try block.
Reschedule(t) ==
    LET e == ex[t]
    IN  /\ e.pc = "reschedule"
        /\ IF update_next_run_at_raises(e)
           THEN /\ ex' = [ ex EXCEPT ![t] = Raise(e, "Exception", "bad cron") ]
                /\ runs' = [ runs EXCEPT ![e.run] = Called(@, "reschedule") ]
           ELSE LET e1 == update_next_run_at(e)
                IN  /\ ex' = [ ex EXCEPT ![t] =
                                 [ e1 EXCEPT !.pc = "exited", !.exit = "returned" ] ]
                    /\ runs' = [ runs EXCEPT ![e.run] =
                                   Exit(Called(@, "reschedule"), e1, "returned") ]
        /\ UNCHANGED << now, winterns, seen, due, budget, call >>

\* The message each except clause hands to fail_run.
ErrorMessage(e) ==
    CASE e.exc = "NoSourcesConfiguredError" -> "No active sources configured"
      [] e.exc = "NoDeliveryConfiguredError" -> "No active delivery channels configured"
      [] OTHER -> e.exc_msg

\* The catch-all clause placed before the two specific ones.
ReraisedByCatchAll(e) == "ExecutionError"

\* What each except clause raises after its update_next_run_at.
Reraised(e) ==
    CASE e.exc = "NoSourcesConfiguredError" -> "NoSourcesConfiguredError"
      [] e.exc = "NoDeliveryConfiguredError" -> "NoDeliveryConfiguredError"
      [] OTHER -> "ExecutionError"

\* fail_run at lines 408, 415 and 428.
Handler(t) ==
    LET e == ex[t]
    IN  /\ e.pc = "handler"
        /\ runs' = [ runs EXCEPT ![e.run] = fail_run(@, ErrorMessage(e), e.metadata) ]
        /\ ex' = [ ex EXCEPT ![t].pc = "handler_reschedule" ]
        /\ UNCHANGED << now, winterns, seen, due, budget, call >>

\* The handlers without their update_next_run_at.
HandlerKeepsSchedule(t) ==
    LET e == ex[t]
    IN  /\ e.pc = "handler_reschedule"
        /\ ex' = [ ex EXCEPT ![t] = [ e EXCEPT !.pc = "exited", !.exit = Reraised(e) ] ]
        /\ runs' = [ runs EXCEPT ![e.run] = Exit(@, e, Reraised(e)) ]
        /\ UNCHANGED << now, winterns, seen, due, budget, call >>

\* update_next_run_at at lines 412, 419 and 432, then the raise.  An
\* exception of update_next_run_at leaves the handler in place of the raise.
HandlerReschedule(t) ==
    LET e == ex[t]
    IN  /\ e.pc = "handler_reschedule"
        /\ IF update_next_run_at_raises(e)
           THEN /\ ex' = [ ex EXCEPT ![t] =
                             [ e EXCEPT !.pc = "exited", !.exit = "CroniterError" ] ]
                /\ runs' = [ runs EXCEPT ![e.run] =
                               Exit(Called(@, "reschedule"), e, "CroniterError") ]
           ELSE LET e1 == update_next_run_at(e)
                IN  /\ ex' = [ ex EXCEPT ![t] =
                                 [ e1 EXCEPT !.pc = "exited", !.exit = Reraised(e) ] ]
                    /\ runs' = [ runs EXCEPT ![e.run] =
                                   Exit(Called(@, "reschedule"), e1, Reraised(e)) ]
        /\ UNCHANGED << now, winterns, seen, due, budget, call >>

\* ---- the batch insert next to another open transaction ----
\* An index that holds only what the session can read.
IndexOfSnapshot(t) == Visible(t)

\* The unique index the insert probes: every row of the table, those of
\* open transactions included.
IndexEntries(t) == seen

\* The rows of other open transactions that hold the key of the item: the
\* insert waits until their transactions have ended.
Blocking(t, item) ==
    { r \in IndexEntries(t) :
        /\ r.wintern_id = ex[t].wid
        /\ r.content_hash = compute_content_hash(item.url)
        /\ r.run_id # ex[t].run
        /\ runs[r.run_id].tx = "open" }

\* An INSERT without the ON CONFLICT clause: a conflicting row is a
\* uniqueness violation.
PlainInsertOutcome(conflict) == IF conflict THEN "IntegrityError" ELSE "stored"

\* ON CONFLICT DO NOTHING: a conflicting row is skipped.
InsertOutcome(conflict) == IF conflict THEN "skipped" ELSE "stored"

\* A statement of the run fails in the database: the transaction is aborted
\* at once and its rows are gone; the catch-all handler's fail_run flushes
\* into the aborted transaction and raises in its turn, so the database
\* error leaves execute_wintern and the caller rolls back.
StatementFails(t, error) ==
    LET e == ex[t]
    IN  /\ seen' = { row \in seen : row.run_id # e.run }
        /\ ex' = [ ex EXCEPT ![t] = [ e EXCEPT !.pc = "exited", !.exit = error ] ]
        /\ runs' = [ runs EXCEPT ![e.run] = Exit(Called(@, "record"), e, error) ]

\* Lines 308-324, one row of the statement: wait for the open transaction
\* that holds the key, skip the row on a conflict, store it otherwise; after
\* the last row the rowcount is returned.
RecordRow(t) ==
    LET e == ex[t]
        item == e.new_results[e.ri]
        outcome == InsertOutcome(Conflict(IndexEntries(t), e.wid, item))
        inserted == IF outcome = "stored" THEN e.inserted + 1 ELSE e.inserted
        e1 == [ e EXCEPT !.ri = @ + 1, !.inserted = inserted ]
    IN  /\ e.pc = "record"
        /\ Blocking(t, item) = {}
        /\ IF outcome = "IntegrityError"
           THEN StatementFails(t, "IntegrityError")
           ELSE /\ seen' = IF outcome = "stored"
                           THEN seen \cup { SeenRow(seen, e.wid, e.run, item) }
                           ELSE on_conflict_do_nothing(seen, e.wid, e.run, item)
                /\ IF e.ri < Len(e.new_results)
                   THEN /\ ex' = [ ex EXCEPT ![t] = e1 ]
                        /\ runs' = runs
                   ELSE /\ ex' = [ ex EXCEPT ![t] = AfterRecord(e1) ]
                        /\ runs' = [ runs EXCEPT ![e.run] =
                                       [ Called(@, "record") EXCEPT
                                           !.batch = e.new_results,
                                           !.inserted = inserted ] ]
        /\ UNCHANGED << now, winterns, due, budget, call >>

\* Two statements wait for each other's rows: the database ends one of them
\* with a deadlock error.
Waiting(t) ==
    /\ ex[t].pc = "record"
    /\ Blocking(t, ex[t].new_results[ex[t].ri]) # {}

Deadlock(t) ==
    /\ Waiting(t)
    /\ \E u \in Tasks \ {t} :
         /\ Waiting(u)
         /\ \E r \in Blocking(t, ex[t].new_results[ex[t].ri]) : r.run_id = ex[u].run
         /\ \E r \in Blocking(u, ex[u].new_results[ex[u].ri]) : r.run_id = ex[t].run
    /\ StatementFails(t, "DeadlockDetectedError")
    /\ UNCHANGED << now, winterns, due, budget, call >>

\* ---------------------------------------------------------------- callers
\* The orders in which a query without ORDER BY may return the rows.
Orders(S) ==
    { s \in [ 1..Cardinality(S) -> S ] : \A x \in S : \E i \in DOMAIN s : s[i] = x }

\* A run whose transaction has ended: nothing reads its metadata again, and
\* the model keeps the record without it and without the log of its calls.
Ended(run, tx) ==
    [ run EXCEPT !.tx = tx, !.metadata = NULL, !.calls = NoCalls,
                 !.next_at_exit = {} ]

\* A commit that also switches off the wintern of a failed run.
commit_deactivating_failed(t) ==
    /\ runs' = [ runs EXCEPT ![ex[t].run] = Ended(@, "committed") ]
    /\ winterns' = [ winterns EXCEPT
                       ![ex[t].wid].next_run_at =
                            IF ex[t].wrote_next THEN ex[t].next_run_at ELSE @,
                       ![ex[t].wid].is_active =
                            @ /\ runs[ex[t].run].status # "failed" ]
    /\ seen' = seen

\* The UPDATE of the wintern's row sets next_run_at, and only when the
\* session's value differs from the one it loaded.
Commit(t) ==
    /\ runs' = [ runs EXCEPT ![ex[t].run] = Ended(@, "committed") ]
    /\ winterns' = IF ex[t].wrote_next /\ ex[t].next_run_at # ex[t].loaded_next
                   THEN [ winterns EXCEPT ![ex[t].wid].next_run_at = ex[t].next_run_at ]
                   ELSE winterns
    /\ seen' = seen

Rollback(t) ==
    /\ runs' = [ runs EXCEPT ![ex[t].run] = Ended(@, "rolledback") ]
    /\ winterns' = winterns
    /\ seen' = { row \in seen : row.run_id # ex[t].run }

\* A caller without the except ExecutionError clause.
NoExceptExecutionError(exit) == FALSE

\* The except clauses of the two callers: ExecutionError and its subclasses
\* are committed, any other exception is rolled back.
IsExecutionError(exit) ==
    exit \in { "ExecutionError", "NoSourcesConfiguredError", "NoDeliveryConfiguredError" }

\* scheduler.check_and_run_due_winterns, lines 50-58: the query of the tick.
TickStart ==
    /\ ~Busy("sched")
    /\ OthersIdle("sched")
    /\ due = << >>
    /\ budget.runs > 0
    /\ get_due_winterns(now) # {}
    /\ \E order \in Orders(get_due_winterns(now)) :
         due' = [ i \in DOMAIN order |->
                    [ id |-> order[i],
                      cron_schedule |-> winterns[order[i]].cron_schedule,
                      next_run_at |-> winterns[order[i]].next_run_at ] ]
    /\ UNCHANGED << now, winterns, runs, seen, ex, budget, call >>

\* Lines 60-68: execute_wintern for the next due wintern, on the object the
\* session loaded in the query.
SchedExecute ==
    /\ due # << >>
    /\ ExecuteBegin("sched", Head(due).id, Head(due).cron_schedule,
                    Head(due).next_run_at)
    /\ due' = due

\* The due winterns the loop still executes after the rollback of line 90.
\* The rollback expires every object of the session, the due winterns
\* included: reading wintern.id for the log call of line 64 then needs a
\* SELECT, which raises outside an await; the except clause of line 83
\* reads wintern.id again, and the exception ends the loop in the except
\* clause of line 92.
RemainingAfterExpiry(remaining) == << >>

\* Lines 69-90: commit, or roll back after an exception that is no
\* ExecutionError.
SchedFinish ==
    /\ ex["sched"].pc = "exited"
    /\ IF ex["sched"].exit = "returned" \/ IsExecutionError(ex["sched"].exit)
       THEN /\ Commit("sched")
            /\ due' = Tail(due)
       ELSE /\ Rollback("sched")
            /\ due' = RemainingAfterExpiry(Tail(due))
    /\ ex' = [ ex EXCEPT !["sched"] = IdleEx ]
    /\ UNCHANGED << now, budget, call >>

\* trigger_run without the checks of lines 95-108.
trigger_run_unchecked(w) == "202 Accepted"

\* router.trigger_run, lines 95-123: the response of POST /{wintern_id}/run
\* for a wintern of the user.
trigger_run(w) ==
    IF ActiveOf(winterns[w].source_configs) = << >> THEN "400 Bad Request"
    ELSE IF ActiveOf(winterns[w].delivery_configs) = << >> THEN "400 Bad Request"
    ELSE "202 Accepted"

\* router.trigger_run and run_wintern_background up to the call of
\* execute_wintern: the wintern needs an active source and an active
\* delivery; is_active is not looked at.
TriggerRun(w) ==
    /\ trigger_run(w) = "202 Accepted"
    /\ ExecuteBegin("manual", w, winterns[w].cron_schedule, winterns[w].next_run_at)
    /\ due' = due

\* run_wintern_background, lines 47-66.
BackgroundFinish ==
    /\ ex["manual"].pc = "exited"
    /\ IF ex["manual"].exit = "returned" \/ IsExecutionError(ex["manual"].exit)
       THEN Commit("manual")
       ELSE Rollback("manual")
    /\ ex' = [ ex EXCEPT !["manual"] = IdleEx ]
    /\ UNCHANGED << now, due, budget, call >>

\* ---------------------------------------------------------------- winterns/service.py
\* A CRUD request commutes with the steps of a run between its creation and
\* the end of execute_wintern, which never read the committed table again:
\* the model orders its commit after them, before the commit of the task.
Quiet == \A t \in Tasks : ex[t].pc \in { "idle", "exited" }

\* create_wintern: is_active defaults to true, next_run_at is computed from
\* the schedule; an unparseable schedule fails the request.
create_wintern(cron, sources, deliveries) ==
    [ context |-> "context", is_active |-> TRUE, cron_schedule |-> cron,
      next_run_at |-> IF cron.present THEN { calculate_next_run_at(cron, 0) } ELSE {},
      source_configs |-> sources, delivery_configs |-> deliveries ]

\* update_wintern with next_run_at recomputed on every request.
update_wintern_always_recomputes(old, has_active, active, has_cron, cron) ==
    LET row == [ old EXCEPT !.is_active = IF has_active THEN active ELSE @,
                            !.cron_schedule = IF has_cron THEN cron ELSE @ ]
    IN  IF row.is_active /\ row.cron_schedule.present /\ ~CronRaises(row.cron_schedule)
        THEN [ row EXCEPT !.next_run_at = { calculate_next_run_at(row.cron_schedule, now) } ]
        ELSE [ row EXCEPT !.next_run_at = {} ]

\* update_wintern: the row the request commits.  The fields of the request
\* are set; next_run_at is recomputed when is_active or cron_schedule is
\* part of the request.  The request fails before its commit, and the row
\* stays as it was, when croniter rejects the schedule.
update_wintern(old, has_active, active, has_cron, cron) ==
    LET row == [ old EXCEPT !.is_active = IF has_active THEN active ELSE @,
                            !.cron_schedule = IF has_cron THEN cron ELSE @ ]
    IN  IF ~(has_active \/ has_cron) THEN row
        ELSE IF row.is_active /\ row.cron_schedule.present
             THEN IF CronRaises(row.cron_schedule)
                  THEN old
                  ELSE [ row EXCEPT !.next_run_at =
                                      { calculate_next_run_at(row.cron_schedule, now) } ]
             ELSE [ row EXCEPT !.next_run_at = {} ]

\* calculate_next_run_at raises inside update_wintern.
update_wintern_raises(old, has_active, active, has_cron, cron) ==
    /\ has_active \/ has_cron
    /\ IF has_active THEN active ELSE old.is_active
    /\ LET cron_schedule == IF has_cron THEN cron ELSE old.cron_schedule
       IN  cron_schedule.present /\ CronRaises(cron_schedule)

\* A PUT that sets is_active or cron_schedule (every other field of the
\* request is outside the model).
UpdateWintern(w, has_active, active, has_cron, cron) ==
    /\ Quiet
    /\ budget.updates > 0
    /\ has_active \/ has_cron
    /\ budget' = [ budget EXCEPT !.updates = @ - 1 ]
    /\ winterns' = [ winterns EXCEPT ![w] =
                       update_wintern(@, has_active, active, has_cron, cron) ]
    /\ UNCHANGED << now, runs, seen, ex, due, call >>

\* delete_wintern: the row the request commits.
delete_wintern(old) == [ old EXCEPT !.is_active = FALSE, !.next_run_at = {} ]

\* delete_wintern: the soft delete.
DeleteWintern(w) ==
    /\ Quiet
    /\ budget.updates > 0
    /\ budget' = [ budget EXCEPT !.updates = @ - 1 ]
    /\ winterns' = [ winterns EXCEPT ![w] = delete_wintern(@) ]
    /\ UNCHANGED << now, runs, seen, ex, due, call >>

\* ---------------------------------------------------------------- time
\* The clock is read when a run is created, by update_next_run_at and by
\* the query of a tick; it advances before one of these reads.
Advance ==
    /\ now < MaxTime
    /\ \A t \in Tasks : ex[t].pc \in { "idle", "reschedule", "handler_reschedule" }
    /\ now' = now + 1
    /\ UNCHANGED << winterns, runs, seen, ex, due, budget, call >>

\* ---------------------------------------------------------------- specification
Init ==
    /\ now = 0
    /\ \E p \in Profiles, cron \in { NoCron, EveryCron } :
         /\ winterns = [ w \in Winterns |->
                          create_wintern(cron, p.sources, p.deliveries) ]
         /\ budget = p.budget
    /\ runs = << >>
    /\ seen = {}
    /\ ex = [ t \in Tasks |-> IdleEx ]
    /\ due = << >>
    /\ call = NoCall

Step(t) ==
    \/ StartRun(t)
    \/ Interpret(t)
    \/ Search(t)
    \/ DedupStep(t)
    \/ Curate(t)
    \/ Record(t)
    \/ Compose(t)
    \/ Deliver(t)
    \/ Complete(t)
    \/ Reschedule(t)
    \/ Handler(t)
    \/ HandlerReschedule(t)

Next ==
    \/ TickStart
    \/ SchedExecute
    \/ SchedFinish
    \/ \E w \in Winterns : TriggerRun(w)
    \/ BackgroundFinish
    \/ \E t \in Tasks : Step(t)
    \/ \E w \in Winterns, has_active \in BOOLEAN, active \in BOOLEAN,
          has_cron \in BOOLEAN, cron \in CronValues :
         /\ has_active \/ ~active
         /\ has_cron \/ cron = NoCron
         /\ UpdateWintern(w, has_active, active, has_cron, cron)
    \/ \E w \in Winterns : DeleteWintern(w)
    \/ Advance

Spec == Init /\ [][Next]_vars

\* ---------------------------------------------------------------- direct calls
\* The variables of the executor, at rest during direct calls of the
\* service functions.
program == << now, winterns, runs, seen, ex, due, budget >>

AtRest ==
    /\ now = 0
    /\ winterns = [ w \in Winterns |-> create_wintern(NoCron, OneSource, OneChannel) ]
    /\ runs = << >>
    /\ seen = {}
    /\ ex = [ t \in Tasks |-> IdleEx ]
    /\ due = << >>
    /\ budget = [ runs |-> 0, updates |-> 0, overlap |-> FALSE ]

\* calculate_next_run_at(cron_schedule, base_time) for a schedule croniter
\* accepts and every reference time up to MaxRef.
CronInit ==
    /\ AtRest
    /\ \E cron \in { DailyAtNine, EveryCron }, base \in 0..MaxRef :
         call = [ op |-> "calculate_next_run_at", cron |-> cron, base |-> base,
                  result |-> {} ]

CalculateNextRunAt ==
    /\ call.op = "calculate_next_run_at"
    /\ call.result = {}
    /\ call' = [ call EXCEPT !.result = { calculate_next_run_at(call.cron, call.base) } ]
    /\ UNCHANGED program

CronNext == CalculateNextRunAt

CronSpec == CronInit /\ [][CronNext]_vars

\* ---- two overlapping runs of one wintern ----
\* A tick of the scheduler and a manual trigger execute the same wintern
\* at the same time.  The behaviour starts when the wintern is due: either
\* nothing else has happened, or the tick has read the due winterns and a
\* PUT has then deactivated the wintern and stored a schedule croniter
\* rejects (the manual run of such a wintern is rolled back).
RaceBudget == [ runs |-> 2, updates |-> 0, overlap |-> TRUE ]

RaceInit ==
    /\ now = CronPeriod
    /\ runs = << >>
    /\ seen = {}
    /\ ex = [ t \in Tasks |-> IdleEx ]
    /\ budget = RaceBudget
    /\ call = NoCall
    /\ LET healthy == create_wintern(EveryCron, OneSource, OneChannel)
       IN  \/ /\ winterns = [ w \in Winterns |-> healthy ]
               /\ due = << >>
           \/ /\ winterns = [ w \in Winterns |->
                                [ healthy EXCEPT !.is_active = FALSE,
                                                 !.cron_schedule = BadCron,
                                                 !.next_run_at = {} ] ]
               /\ due = << [ id |-> "w1", cron_schedule |-> EveryCron,
                             next_run_at |-> healthy.next_run_at ] >>

RaceStep(t) ==
    \/ StartRun(t)
    \/ Interpret(t)
    \/ Search(t)
    \/ DedupStep(t)
    \/ Curate(t)
    \/ RecordRow(t)
    \/ Deadlock(t)
    \/ Compose(t)
    \/ Deliver(t)
    \/ Complete(t)
    \/ Reschedule(t)
    \/ Handler(t)
    \/ HandlerReschedule(t)

RaceNext ==
    \/ TickStart
    \/ SchedExecute
    \/ SchedFinish
    \/ \E w \in Winterns : TriggerRun(w)
    \/ BackgroundFinish
    \/ \E t \in Tasks : RaceStep(t)

RaceSpec == RaceInit /\ [][RaceNext]_vars

\* ---- a tick with two due winterns ----
\* Two winterns with the same schedule are due in the same tick.  The
\* database may end the batch insert of a run with an error (the deadlock
\* of two overlapping runs is one such error).
TickWinterns == {"w1", "w2"}
TickBudget == [ runs |-> 2, updates |-> 0, overlap |-> FALSE ]

TickInit ==
    /\ now = CronPeriod
    /\ winterns = [ w \in TickWinterns |->
                      create_wintern(EveryCron, OneSource, OneChannel) ]
    /\ runs = << >>
    /\ seen = {}
    /\ ex = [ t \in Tasks |-> IdleEx ]
    /\ due = << >>
    /\ budget = TickBudget
    /\ call = NoCall

DatabaseError(t) ==
    /\ ex[t].pc = "record"
    /\ StatementFails(t, "DBAPIError")
    /\ UNCHANGED << now, winterns, due, budget, call >>

TickStep(t) ==
    \/ StartRun(t)
    \/ Interpret(t)
    \/ Search(t)
    \/ DedupStep(t)
    \/ Curate(t)
    \/ Record(t)
    \/ DatabaseError(t)
    \/ Compose(t)
    \/ Deliver(t)
    \/ Complete(t)
    \/ Reschedule(t)
    \/ Handler(t)
    \/ HandlerReschedule(t)

TickNext ==
    \/ TickStart
    \/ SchedExecute
    \/ SchedFinish
    \/ TickStep("sched")

TickSpec == TickInit /\ [][TickNext]_vars

\* ---- execute_wintern called with any id ----
\* execute_wintern(session, wintern_id) is called as run_wintern_background
\* calls it, with the id of the wintern or with an id no wintern has.
MissingId == "w0"
ExecIds == Winterns \cup { MissingId }
ExecBudget == [ runs |-> 2, updates |-> 0, overlap |-> FALSE ]

\* get_wintern_for_execution: scalar_one_or_none of the SELECT by id, as
\* the set of the rows found.
get_wintern_for_execution(wid) ==
    IF wid \in DOMAIN winterns THEN { winterns[wid] } ELSE {}

ExecInit ==
    /\ now = CronPeriod
    /\ winterns = [ w \in Winterns |-> create_wintern(EveryCron, OneSource, OneChannel) ]
    /\ runs = << >>
    /\ seen = {}
    /\ ex = [ t \in Tasks |-> IdleEx ]
    /\ due = << >>
    /\ budget = ExecBudget
    /\ call = [ op |-> "execute_wintern", wintern_id |-> NULL, raised |-> NULL,
                made |-> 0 ]

\* Lines 182-189 with the run record created before the wintern is looked
\* for.
RunCreatedBeforeLookup(wid) ==
    /\ runs' = Append(runs, [ wintern_id |-> wid, status |-> "pending", tx |-> "open" ])
    /\ UNCHANGED << now, winterns, seen, ex, due >>

\* Lines 182-185: the wintern is not found; ExecutionError is raised before
\* anything is written.
WinternNotFound(wid) ==
    UNCHANGED << now, winterns, runs, seen, ex, due >>

\* One call of execute_wintern and, for an id no wintern has, its end.
ExecuteWintern(wid) ==
    /\ ~Busy("manual")
    /\ budget.runs > 0
    /\ IF get_wintern_for_execution(wid) = {}
       THEN /\ WinternNotFound(wid)
            /\ budget' = [ budget EXCEPT !.runs = @ - 1 ]
            /\ call' = [ call EXCEPT !.wintern_id = wid, !.raised = "ExecutionError",
                                     !.made = @ + 1 ]
       ELSE /\ ExecuteBegin("manual", wid, winterns[wid].cron_schedule,
                            winterns[wid].next_run_at)
            /\ due' = due

ExecNext ==
    \/ \E wid \in ExecIds : ExecuteWintern(wid)
    \/ TickStep("manual")
    \/ BackgroundFinish

ExecSpec == ExecInit /\ [][ExecNext]_vars

\* ---- record_seen_content_batch and get_seen_hashes called directly ----
\* Two winterns, each with one committed run that the recorded rows refer
\* to; every call is made in a session of its own and committed.

BatchWinterns == {"w1", "w2"}
MaxBatches == 3
MaxBatchLen == 2

BatchItems ==
    { [ i \in DOMAIN us |-> [ url |-> us[i], source |-> "brave_search" ] ] :
        us \in UNION { [ 1..k -> URLs ] : k \in 0..MaxBatchLen } }

RunOf(wid) == CHOOSE r \in DOMAIN runs : runs[r].wintern_id = wid

HashesOf(urls) == { compute_content_hash(u) : u \in urls }

BatchInit ==
    /\ now = 0
    /\ winterns = [ w \in BatchWinterns |-> create_wintern(NoCron, OneSource, OneChannel) ]
    /\ ex = [ t \in Tasks |-> IdleEx ]
    /\ runs = << [ create_run("w1", "manual") EXCEPT !.tx = "committed" ],
                 [ create_run("w2", "manual") EXCEPT !.tx = "committed" ] >>
    /\ seen = {}
    /\ due = << >>
    /\ budget = [ runs |-> 0, updates |-> 0, overlap |-> FALSE ]
    /\ call = [ op |-> "record_seen_content_batch", wid |-> "w1", items |-> << >>,
                returned |-> 0, made |-> 0,
                before |-> [ w \in BatchWinterns |-> {} ],
                earlier |-> [ w \in BatchWinterns |-> {} ],
                recorded |-> [ w \in BatchWinterns |-> {} ] ]

\* One call of record_seen_content_batch(session, wintern_id, run_id,
\* items), committed.  The value returned is the rowcount of the statement:
\* the rows it stored.  call.recorded keeps the URLs passed so far for each
\* wintern, call.before the hashes get_seen_hashes returned before the call.
RecordBatch ==
    /\ call.op = "record_seen_content_batch"
    /\ call.made < MaxBatches
    /\ \E wid \in BatchWinterns, items \in BatchItems :
         /\ seen' = record_seen_content_batch(seen, wid, RunOf(wid), items)
         /\ call' = [ call EXCEPT
                !.wid = wid, !.items = items, !.made = @ + 1,
                !.returned = IF items = << >> THEN 0
                             ELSE Cardinality(seen') - Cardinality(seen),
                !.before = [ w \in BatchWinterns |-> get_seen_hashes("manual", w) ],
                !.earlier = call.recorded,
                !.recorded[wid] = @ \cup { items[i].url : i \in DOMAIN items } ]
    /\ UNCHANGED << now, winterns, runs, ex, due, budget >>

BatchNext == RecordBatch
BatchSpec == BatchInit /\ [][BatchNext]_vars

\* ---- the source adapters called directly ----
\* One call of search_brave or search_reddit.  The remote side answers
\* every HTTP request with a status code or the request fails with a
\* timeout or a transport error; a 429 may carry a Retry-After header in
\* either of its two legal forms.

MaxRetries == 3     \* the max_retries argument ranges over 0..MaxRetries (default 3)

Adapters == {"brave_search", "reddit"}
StatusCodes == {200, 401, 404, 429, 503}
RetryAfterHeaders == {"absent", "seconds", "http-date"}
HeaderSeconds == 1  \* the number a Retry-After header in seconds form carries
DateSeconds == 2    \* seconds from now to the time an http-date header names

Response(status, header) ==
    [ kind |-> "response", status_code |-> status, retry_after |-> header ]
TimeoutException ==
    [ kind |-> "TimeoutException", status_code |-> 0, retry_after |-> "absent" ]
RequestError ==
    [ kind |-> "RequestError", status_code |-> 0, retry_after |-> "absent" ]
NoOutcome == [ kind |-> "none", status_code |-> 0, retry_after |-> "absent" ]

Outcomes ==
    { Response(s, "absent") : s \in StatusCodes \ {429} }
        \cup { Response(429, h) : h \in RetryAfterHeaders }
        \cup { TimeoutException, RequestError }

Success(o) == o.kind = "response" /\ o.status_code = 200

\* The failures both adapters retry: 5xx, timeout, transport error, 429.
Transient(o) ==
    \/ o.kind \in {"TimeoutException", "RequestError"}
    \/ o.kind = "response" /\ (o.status_code = 429 \/ o.status_code >= 500)

\* Exceptions.  BraveSearchError / RedditError are the bases of the adapter
\* errors; ValueError and the httpx exceptions are not among them.
Error(type, status) == [ type |-> type, status_code |-> status ]
NoError == Error(NULL, 0)
AdapterErrors ==
    {"CredentialsMissingError", "AuthError", "RateLimitError", "APIError"}

\* brave.py: _parse_retry_after(value, default)
_parse_retry_after(header, default) ==
    CASE header = "absent" -> default
      [] header = "seconds" -> HeaderSeconds
      [] OTHER -> IF DateSeconds > 1 THEN DateSeconds ELSE 1

\* reddit.py: int(response.headers.get("Retry-After", "60")) raises
\* ValueError on a header that is not a decimal number.
IntRaises(header) == header = "http-date"
RedditRetryAfter(header) == IF header = "absent" THEN 60 ELSE HeaderSeconds

\* The except httpx.HTTPStatusError branch: raise at once, or go round again.
retry_every_client_error(adapter, status) == FALSE

raise_client_error(adapter, status) ==
    /\ 400 <= status /\ status < 500
    /\ adapter = "reddit" => status \notin {401, 429}

AdapterCall(adapter, configured, max_retries, token) ==
    [ op |-> "search", adapter |-> adapter, configured |-> configured,
      max_retries |-> max_retries, token |-> token, pc |-> "start",
      attempt |-> 0, requests |-> 0, searches |-> 0, slept |-> 0,
      last |-> NoOutcome, last_error |-> NoError, raised |-> NoError,
      transient_only |-> TRUE, token_ok |-> TRUE, retried |-> {} ]

AdapterInit ==
    /\ now = 0
    /\ winterns = [ w \in Winterns |-> create_wintern(NoCron, OneSource, OneChannel) ]
    /\ ex = [ t \in Tasks |-> IdleEx ]
    /\ runs = << >>
    /\ seen = {}
    /\ due = << >>
    /\ budget = [ runs |-> 0, updates |-> 0, overlap |-> FALSE ]
    /\ \E adapter \in Adapters, configured \in BOOLEAN,
          max_retries \in 0..MaxRetries, token \in BOOLEAN :
         /\ token => adapter = "reddit"
         /\ call = AdapterCall(adapter, configured, max_retries, token)

\* The credentials check that precedes the loop.
SearchStart ==
    /\ call.pc = "start"
    /\ call' = IF call.configured
               THEN [ call EXCEPT !.pc = "loop" ]
               ELSE [ call EXCEPT !.pc = "raised",
                                  !.raised = Error("CredentialsMissingError", 0) ]
    /\ UNCHANGED << now, winterns, runs, seen, ex, due, budget >>

\* What one search request that ended with outcome o does to the call c.
AfterSearch(c, o) ==
    LET d == [ c EXCEPT !.requests = @ + 1, !.searches = @ + 1, !.last = o,
                        !.transient_only = @ /\ (Transient(o) \/ Success(o)) ]
        again(e, wait) ==
            [ d EXCEPT !.last_error = e, !.slept = @ + wait, !.attempt = @ + 1,
                       !.retried = @ \cup { o.status_code } ]
        stop(e) == [ d EXCEPT !.last_error = e, !.raised = e, !.pc = "raised" ]
        status == o.status_code
    IN  CASE o.kind # "response" -> again(Error(o.kind, 0), 2 ^ c.attempt)
          [] o.kind = "response" /\ status = 401 /\ c.adapter = "reddit" ->
                [ again(Error("AuthError", 0), 0) EXCEPT !.token = FALSE ]
          [] o.kind = "response" /\ status = 429 ->
                IF c.adapter = "reddit"
                THEN IF IntRaises(o.retry_after)
                     THEN [ d EXCEPT !.raised = Error("ValueError", 0), !.pc = "raised" ]
                     ELSE again(Error("RateLimitError", 0), RedditRetryAfter(o.retry_after))
                ELSE again(Error("RateLimitError", 0), _parse_retry_after(o.retry_after, 5))
          [] o.kind = "response" /\ status >= 500 ->
                again(Error("APIError", status), 2 ^ c.attempt)
          [] o.kind = "response" /\ status = 200 -> [ d EXCEPT !.pc = "returned" ]
          [] OTHER ->
                IF raise_client_error(c.adapter, status)
                THEN stop(Error("APIError", status))
                ELSE again(Error("APIError", status), 0)

\* One pass of the loop body: the Reddit adapter first gets a token (one
\* more HTTP request unless a token is cached; any failure of that request
\* leaves the call as RedditAuthError), then the search request is made.
SearchAttempt ==
    /\ call.pc = "loop"
    /\ call.attempt < call.max_retries
    /\ \E tok \in Outcomes, o \in Outcomes :
         LET needs_token == call.adapter = "reddit" /\ ~call.token
         IN  call' =
               IF needs_token /\ ~Success(tok)
               THEN [ call EXCEPT !.requests = @ + 1, !.token_ok = FALSE,
                                  !.raised = Error("AuthError", 0), !.pc = "raised" ]
               ELSE AfterSearch(
                      [ call EXCEPT !.requests = IF needs_token THEN @ + 1 ELSE @,
                                    !.token = (call.adapter = "reddit") ], o)
    /\ UNCHANGED << now, winterns, runs, seen, ex, due, budget >>

\* After the loop: all retries exhausted.
RetriesExhausted ==
    /\ call.pc = "loop"
    /\ call.attempt = call.max_retries
    /\ call' = [ call EXCEPT !.pc = "raised",
                   !.raised = IF call.last_error.type \in AdapterErrors
                              THEN call.last_error
                              ELSE Error("APIError", 0) ]
    /\ UNCHANGED << now, winterns, runs, seen, ex, due, budget >>

AdapterNext == SearchStart \/ SearchAttempt \/ RetriesExhausted
AdapterSpec == AdapterInit /\ [][AdapterNext]_vars

\* ---- SlackDelivery.deliver called directly ----
\* One call of deliver(payload, **kwargs).  send_slack posts to the webhook
\* through AsyncWebhookClient with AsyncRateLimitErrorRetryHandler
\* (max_retry_count=2): the client repeats a request answered 429 up to
\* twice and then hands the 429 response back.

RateLimitRetries == 2
OverrideUrl == "https://hooks.slack.com/override"
OwnUrl == "https://hooks.slack.com/test"
DefaultUrl == "https://hooks.slack.com/default"
NotAStr == "<not a str>"

WebhookKwargs == { NULL, "", OverrideUrl, NotAStr }
OwnUrls == { NULL, "", OwnUrl }
DefaultUrls == { "", DefaultUrl }

\* What one request of client.send ends with: a response, SlackApiError,
\* a transport error of the HTTP library, or any other exception.
SendOutcomes ==
    { [ kind |-> "response", status_code |-> s ] : s \in {200, 429, 500} }
        \cup { [ kind |-> k, status_code |-> 0 ] :
                 k \in {"SlackApiError", "ClientConnectionError", "RuntimeError"} }

\* slack.py: the SlackError hierarchy.
SlackErrors ==
    {"SlackWebhookMissingError", "SlackWebhookError", "SlackRateLimitError"}

SlackMessage(type) ==
    CASE type = "SlackWebhookMissingError" -> "Slack webhook URL is required"
      [] type = "SlackRateLimitError" -> "Rate limited by Slack"
      [] OTHER -> "Slack webhook error"

DeliveryResult(success, error_message) ==
    [ success |-> success, channel |-> "slack", error_message |-> error_message ]
NoResult == [ success |-> FALSE, channel |-> NULL, error_message |-> NULL ]

\* SlackDelivery.webhook_url: self._webhook_url or settings.slack_default_webhook_url
webhook_url(own, default) == IF own \in { NULL, "" } THEN default ELSE own

\* The url deliver passes to send_slack.
DeliverUrl(kwarg, own, default) ==
    IF kwarg \notin { NULL, NotAStr } THEN kwarg ELSE webhook_url(own, default)

DeliveryInit ==
    /\ now = 0
    /\ winterns = [ w \in Winterns |-> create_wintern(NoCron, OneSource, OneChannel) ]
    /\ ex = [ t \in Tasks |-> IdleEx ]
    /\ runs = << >>
    /\ seen = {}
    /\ due = << >>
    /\ budget = [ runs |-> 0, updates |-> 0, overlap |-> FALSE ]
    /\ \E kwarg \in WebhookKwargs, own \in OwnUrls, default \in DefaultUrls :
         call = [ op |-> "deliver", kwarg |-> kwarg, own |-> own, default |-> default,
                  pc |-> "start", url |-> NULL, requests |-> 0,
                  last |-> [ kind |-> "none", status_code |-> 0 ],
                  result |-> NoResult, raised |-> NULL ]

\* deliver's except clause: the exception becomes a failed result, or it
\* leaves deliver.
deliver_except(c, type) ==
    IF type \in SlackErrors
    THEN [ c EXCEPT !.pc = "done", !.result = DeliveryResult(FALSE, SlackMessage(type)) ]
    ELSE [ c EXCEPT !.pc = "done", !.raised = type ]

\* deliver up to send_slack's check of the url.
DeliverStart ==
    /\ call.pc = "start"
    /\ LET url == DeliverUrl(call.kwarg, call.own, call.default)
           c == [ call EXCEPT !.url = url ]
       IN  call' = IF url = ""
                   THEN deliver_except(c, "SlackWebhookMissingError")
                   ELSE [ c EXCEPT !.pc = "send" ]
    /\ UNCHANGED << now, winterns, runs, seen, ex, due, budget >>

\* One request of client.send and, unless it is repeated, the rest of
\* send_slack and deliver.
SendRequest ==
    /\ call.pc = "send"
    /\ \E o \in SendOutcomes :
         LET c == [ call EXCEPT !.requests = @ + 1, !.last = o ]
         IN  call' =
               CASE o.kind = "response" /\ o.status_code = 200 ->
                      [ c EXCEPT !.pc = "done", !.result = DeliveryResult(TRUE, NULL) ]
                 [] o.kind = "response" /\ o.status_code = 429 ->
                      IF call.requests < RateLimitRetries
                      THEN c
                      ELSE deliver_except(c, "SlackRateLimitError")
                 [] o.kind = "response" /\ o.status_code \notin {200, 429} ->
                      deliver_except(c, "SlackWebhookError")
                 [] o.kind = "SlackApiError" -> deliver_except(c, "SlackWebhookError")
                 [] OTHER -> deliver_except(c, o.kind)
    /\ UNCHANGED << now, winterns, runs, seen, ex, due, budget >>

DeliveryNext == DeliverStart \/ SendRequest
DeliverySpec == DeliveryInit /\ [][DeliveryNext]_vars

\* ---- update_wintern and delete_wintern called directly ----
\* A wintern created with no schedule or with a valid one receives up to
\* CrudRequests PUT and DELETE requests while the clock advances; no run is
\* in progress.  call keeps the last request and the row it found.

CrudRequests == 3

CrudInit ==
    /\ now = 0
    /\ \E cron \in { NoCron, EveryCron } :
         winterns = [ w \in Winterns |-> create_wintern(cron, OneSource, OneChannel) ]
    /\ ex = [ t \in Tasks |-> IdleEx ]
    /\ runs = << >>
    /\ seen = {}
    /\ due = << >>
    /\ budget = [ runs |-> 0, updates |-> CrudRequests, overlap |-> FALSE ]
    /\ call = [ op |-> "none", wid |-> NULL, has_active |-> FALSE, has_cron |-> FALSE,
                raised |-> FALSE, at |-> 0,
                before |-> create_wintern(NoCron, OneSource, OneChannel) ]

\* PUT /winterns/{id} with any subset of the fields.
CrudUpdate ==
    /\ budget.updates > 0
    /\ \E w \in Winterns, has_active \in BOOLEAN, active \in BOOLEAN,
          has_cron \in BOOLEAN, cron \in CronValues :
         /\ has_active \/ ~active
         /\ has_cron \/ cron = NoCron
         /\ winterns' = [ winterns EXCEPT ![w] =
                            update_wintern(@, has_active, active, has_cron, cron) ]
         /\ call' = [ op |-> "update_wintern", wid |-> w, has_active |-> has_active,
                      has_cron |-> has_cron, at |-> now, before |-> winterns[w],
                      raised |-> update_wintern_raises(winterns[w], has_active, active,
                                                       has_cron, cron) ]
    /\ budget' = [ budget EXCEPT !.updates = @ - 1 ]
    /\ UNCHANGED << now, runs, seen, ex, due >>

\* DELETE /winterns/{id}.
CrudDelete ==
    /\ budget.updates > 0
    /\ \E w \in Winterns :
         /\ winterns' = [ winterns EXCEPT ![w] = delete_wintern(@) ]
         /\ call' = [ op |-> "delete_wintern", wid |-> w, has_active |-> FALSE,
                      has_cron |-> FALSE, at |-> now, before |-> winterns[w],
                      raised |-> FALSE ]
    /\ budget' = [ budget EXCEPT !.updates = @ - 1 ]
    /\ UNCHANGED << now, runs, seen, ex, due >>

CrudNext == CrudUpdate \/ CrudDelete \/ Advance
CrudSpec == CrudInit /\ [][CrudNext]_vars

\* ---- the rate-limit gates of the source adapters ----
\* sources/brave.py and sources/reddit.py each keep a module-level
\* asyncio.Semaphore(1) and a module-level _last_request_time.  Every attempt
\* of a search awaits _rate_limit() of its module before it builds the HTTP
\* request.  The tasks of one event loop interleave only at an await: at the
\* acquire of a taken semaphore and at asyncio.sleep.  The loop's clock is
\* now, counted in ticks of half a second.

Second == 2            \* ticks of the clock in one second
MaxGateCalls == 2      \* calls of _rate_limit one task makes

RateLimitRps == { 0, 1, 2 }   \* settings.brave_rate_limit_rps

\* brave.py: 1.0 / rps, and 0.0 when rps <= 0.
_get_min_request_interval(rps) == IF rps <= 0 THEN 0 ELSE Second \div rps

\* reddit.py: the constant 1.0.
_MIN_REQUEST_INTERVAL == Second

min_interval(adapter, rps) ==
    IF adapter = "brave_search" THEN _get_min_request_interval(rps)
    ELSE _MIN_REQUEST_INTERVAL

\* async with _rate_limit_semaphore: a task enters when the one slot is free.
acquire_without_semaphore(value) == TRUE

acquire(value) == value > 0

GateTask == [ pc |-> "idle", adapter |-> NULL, wake_at |-> 0, calls |-> 0 ]

GateInit ==
    /\ now = 0
    /\ winterns = [ w \in Winterns |-> create_wintern(NoCron, OneSource, OneChannel) ]
    /\ ex = [ t \in Tasks |-> IdleEx ]
    /\ runs = << >>
    /\ seen = {}
    /\ due = << >>
    /\ budget = [ runs |-> 0, updates |-> 0, overlap |-> FALSE ]
    /\ \E rps \in RateLimitRps :
         call = [ rps |-> rps,
                  semaphore |-> [ a \in Adapters |-> 1 ],
                  last_request_time |-> [ a \in Adapters |-> 0 ],
                  task |-> [ t \in Tasks |-> GateTask ],
                  left |-> [ a \in Adapters |-> << >> ] ]

\* The task leaves the gate of adapter a at the instant now.
LeaveGate(c, t, a) ==
    [ c EXCEPT !.task[t].pc = "request", !.left[a] = Append(@, now) ]

\* An attempt of a search calls _rate_limit().  With the limit switched off
\* (brave only) the call returns at once and touches nothing.
RateLimitCall(t) ==
    /\ call.task[t].pc = "idle"
    /\ call.task[t].calls < MaxGateCalls
    /\ \E a \in Adapters :
         LET c == [ call EXCEPT !.task[t].adapter = a, !.task[t].calls = @ + 1 ]
         IN  call' = IF min_interval(a, call.rps) <= 0
                     THEN LeaveGate(c, t, a)
                     ELSE [ c EXCEPT !.task[t].pc = "acquire" ]
    /\ UNCHANGED << now, winterns, runs, seen, ex, due, budget >>

\* The task gets the slot and reads the clock.  Too soon after the last
\* request it goes to sleep holding the slot; otherwise it stamps
\* _last_request_time, frees the slot and returns, all without an await.
Acquire(t) ==
    /\ call.task[t].pc = "acquire"
    /\ LET a == call.task[t].adapter
           time_since_last == now - call.last_request_time[a]
           interval == min_interval(a, call.rps)
       IN  /\ acquire(call.semaphore[a])
           /\ call' = IF time_since_last < interval
                      THEN [ call EXCEPT !.semaphore[a] = @ - 1,
                                         !.task[t].pc = "sleep",
                                         !.task[t].wake_at = now + (interval - time_since_last) ]
                      ELSE [ LeaveGate(call, t, a) EXCEPT !.last_request_time[a] = now ]
    /\ UNCHANGED << now, winterns, runs, seen, ex, due, budget >>

\* asyncio.sleep returns no earlier than asked; the task stamps
\* _last_request_time with the clock it reads then and frees the slot.
Wake(t) ==
    /\ call.task[t].pc = "sleep"
    /\ now >= call.task[t].wake_at
    /\ LET a == call.task[t].adapter
       IN  call' = [ LeaveGate(call, t, a) EXCEPT !.last_request_time[a] = now,
                                                  !.semaphore[a] = @ + 1 ]
    /\ UNCHANGED << now, winterns, runs, seen, ex, due, budget >>

\* The HTTP request after the gate; it runs outside the gate and ends at
\* any time.
Request(t) ==
    /\ call.task[t].pc = "request"
    /\ call' = [ call EXCEPT !.task[t].pc = "idle" ]
    /\ UNCHANGED << now, winterns, runs, seen, ex, due, budget >>

GateNext ==
    \/ \E t \in Tasks : RateLimitCall(t)
    \/ \E t \in Tasks : Acquire(t)
    \/ \E t \in Tasks : Wake(t)
    \/ \E t \in Tasks : Request(t)
    \/ Advance

GateSpec == GateInit /\ [][GateNext]_vars

\* ---- the scheduler and its poll job ----
\* execution/scheduler.py keeps one module-level _scheduler.  start_scheduler
\* builds an AsyncIOScheduler with the job defaults of setup_scheduler, adds
\* the interval job check_due_winterns and starts it; shutdown_scheduler stops
\* it and clears the global.  A started scheduler wakes at or after the job's
\* next run time, collects the run times that have passed, keeps the last one
\* when the job coalesces, and hands them to the executor unless the job
\* already has max_instances instances; an instance calls the job function
\* once per run time that is not later than misfire_grace_time.  The clock is
\* now, counted in ticks of 60 seconds.  schedulers holds every instance ever
\* built, and _scheduler is an index into it, 0 for None.

CHECK_INTERVAL_SECONDS == 5     \* 300 s
MaxSchedTime == 15              \* the clock runs 0..MaxSchedTime
MaxLifecycleCalls == 3          \* calls of start_scheduler and shutdown_scheduler

job_defaults_uncoalesced ==
    [ coalesce |-> FALSE, max_instances |-> 2, misfire_grace_time |-> 1 ]

job_defaults ==
    [ coalesce |-> TRUE, max_instances |-> 1, misfire_grace_time |-> 1 ]

setup_scheduler ==
    [ running |-> FALSE, jobs |-> << >>, next_run_time |-> 0, instances |-> 0 ]

\* add_job(..., id=job_id, replace_existing=True): a job with the same id is
\* replaced, any other id is added.
add_job(jobs, job_id) ==
    IF \E i \in 1..Len(jobs) : jobs[i] = job_id THEN jobs ELSE Append(jobs, job_id)

get_scheduler(c) == c._scheduler

scheduler_never_running(c) == FALSE

scheduler_running(c) ==
    c._scheduler # 0 /\ c.schedulers[c._scheduler].running

\* The run times of the interval job from its next run time up to t.
_get_run_times(next_run_time, t) ==
    [ k \in 1..((t - next_run_time) \div CHECK_INTERVAL_SECONDS + 1) |->
        next_run_time + (k - 1) * CHECK_INTERVAL_SECONDS ]

Coalesced(run_times) ==
    IF job_defaults.coalesce THEN << run_times[Len(run_times)] >> ELSE run_times

\* The run times of one instance on which the job function is called.
NotMisfired(run_times) ==
    { k \in 1..Len(run_times) : now - run_times[k] <= job_defaults.misfire_grace_time }

NoWakeup == [ due |-> 0, submitted |-> 0, started |-> 0 ]

SchedulerInit ==
    /\ now = 0
    /\ winterns = [ w \in Winterns |-> create_wintern(NoCron, OneSource, OneChannel) ]
    /\ ex = [ t \in Tasks |-> IdleEx ]
    /\ runs = << >>
    /\ seen = {}
    /\ due = << >>
    /\ budget = [ runs |-> 0, updates |-> 0, overlap |-> FALSE ]
    /\ call = [ _scheduler |-> 0, schedulers |-> << >>, calls |-> 0,
                op |-> "none", returned |-> 0, raised |-> FALSE,
                last |-> NoWakeup, caught_up |-> FALSE, skipped |-> FALSE ]

\* start_scheduler().  start() may raise (no running event loop); the global
\* then keeps the scheduler that did not start.
StartScheduler ==
    /\ call.calls < MaxLifecycleCalls
    /\ IF scheduler_running(call)
       THEN call' = [ call EXCEPT !.calls = @ + 1, !.op = "start_scheduler",
                                  !.returned = call._scheduler, !.raised = FALSE ]
       ELSE \E raises \in BOOLEAN :
              LET new == [ setup_scheduler EXCEPT
                             !.jobs = add_job(@, "check_due_winterns"),
                             !.next_run_time = now + CHECK_INTERVAL_SECONDS,
                             !.running = ~raises ]
                  n == Len(call.schedulers) + 1
              IN  call' = [ call EXCEPT !.calls = @ + 1, !.op = "start_scheduler",
                                        !.schedulers = Append(@, new),
                                        !._scheduler = n,
                                        !.returned = IF raises THEN 0 ELSE n,
                                        !.raised = raises ]
    /\ UNCHANGED << now, winterns, runs, seen, ex, due, budget >>

\* shutdown_scheduler().  shutdown(wait=True) stops the scheduler; the asyncio
\* executor cancels the instance that is still running.
ShutdownScheduler ==
    /\ call.calls < MaxLifecycleCalls
    /\ LET c == [ call EXCEPT !.calls = @ + 1, !.op = "shutdown_scheduler",
                              !.returned = 0, !.raised = FALSE ]
       IN  call' = IF call._scheduler = 0 THEN c
                   ELSE IF ~call.schedulers[call._scheduler].running THEN c
                   ELSE [ c EXCEPT !.schedulers[call._scheduler].running = FALSE,
                                   !.schedulers[call._scheduler].instances = 0,
                                   !._scheduler = 0 ]
    /\ UNCHANGED << now, winterns, runs, seen, ex, due, budget >>

\* A started scheduler wakes for its job.
ProcessJobs ==
    /\ \E i \in 1..Len(call.schedulers) :
         LET s == call.schedulers[i]
             run_times == _get_run_times(s.next_run_time, now)
             submitted == Coalesced(run_times)
             accepted == s.instances < job_defaults.max_instances
             started == IF accepted THEN Cardinality(NotMisfired(submitted)) ELSE 0
         IN  /\ s.running
             /\ now >= s.next_run_time
             /\ call' = [ call EXCEPT
                   !.schedulers[i].next_run_time =
                        run_times[Len(run_times)] + CHECK_INTERVAL_SECONDS,
                   !.schedulers[i].instances = IF started > 0 THEN @ + 1 ELSE @,
                   !.last = [ due |-> Len(run_times), submitted |-> Len(submitted),
                              started |-> started ],
                   !.caught_up = @ \/ (Len(run_times) > 1 /\ started = 1),
                   !.skipped = @ \/ ~accepted ]
    /\ UNCHANGED << now, winterns, runs, seen, ex, due, budget >>

\* check_and_run_due_winterns returns.
JobDone ==
    /\ \E i \in 1..Len(call.schedulers) :
         /\ call.schedulers[i].instances > 0
         /\ call' = [ call EXCEPT !.schedulers[i].instances = @ - 1 ]
    /\ UNCHANGED << now, winterns, runs, seen, ex, due, budget >>

SchedulerAdvance ==
    /\ now < MaxSchedTime
    /\ now' = now + 1
    /\ UNCHANGED << winterns, runs, seen, ex, due, budget, call >>

SchedulerNext ==
    \/ StartScheduler
    \/ ShutdownScheduler
    \/ ProcessJobs
    \/ JobDone
    \/ SchedulerAdvance

SchedulerSpec == SchedulerInit /\ [][SchedulerNext]_vars

\* ---------------------------------------------------------------- properties
\* A task's execute_wintern call has returned or raised, and its caller has
\* not yet committed or rolled back.
Exited(t) == ex[t].pc = "exited"
TheRun(t) == runs[ex[t].run]
Terminal == { "completed", "failed" }
IsPrefix(s, full) == Len(s) <= Len(full) /\ \A i \in 1..Len(s) : s[i] = full[i]
TerminalWrites(run) == { i \in DOMAIN run.trail : run.trail[i] \in Terminal }

NoNewContent == "No new content found."
NoRelevantContent == "No relevant content found after curation."

\* C1: the status of every run only moves along pending -> running ->
\* completed or pending -> running -> failed; it never moves back, and a
\* completed or failed run is never written again (never completed -> failed).
C1_StatusOnlyMovesForward ==
    \A r \in DOMAIN runs :
        \/ IsPrefix(runs[r].trail, << "pending", "running", "completed" >>)
        \/ IsPrefix(runs[r].trail, << "pending", "running", "failed" >>)

\* C2: when execute_wintern returns or raises after creating a run, the run
\* is completed or failed, and exactly one terminal state was written for it.
C2_OneTerminalWritePerExit ==
    \A t \in Tasks :
        Exited(t) =>
            /\ TheRun(t).status \in Terminal
            /\ Cardinality(TerminalWrites(TheRun(t))) = 1

\* C3: on every exit path after the run is created update_next_run_at has
\* been applied to the wintern; with a schedule the resulting next_run_at is
\* strictly later than the time of the call, without one it is null.
C3_ScheduleAdvancedOnEveryExit ==
    \A t \in Tasks :
        Exited(t) =>
            /\ TheRun(t).calls.reschedule >= 1
            /\ ex[t].wrote_next
            /\ IF ex[t].cron.present
               THEN /\ TheRun(t).next_at_exit # {}
                    /\ \A n \in TheRun(t).next_at_exit : n > TheRun(t).called_at
               ELSE TheRun(t).next_at_exit = {}

\* C4: under the scheduler loop a scheduled wintern whose orchestration
\* fails is executed at most once per cron slot: a later scheduler run of it
\* is not created before the firing time that follows the failed run, and
\* the commit that ends the tick's execution of it leaves a next_run_at in
\* the future, so that the wintern is not due.
SchedulerFailure(r) ==
    /\ runs[r].by = "sched"
    /\ runs[r].status = "failed"
    /\ runs[r].tx = "committed"
OncePerSlot ==
    \A r1 \in DOMAIN runs, r2 \in DOMAIN runs :
        ( /\ r1 < r2
          /\ SchedulerFailure(r1)
          /\ runs[r1].cron.present
          /\ runs[r2].by = "sched"
          /\ runs[r2].wintern_id = runs[r1].wintern_id )
        => runs[r2].called_at >= calculate_next_run_at(runs[r1].cron, runs[r1].called_at)
CommitsFutureRun ==
    ( /\ Exited("sched")
      /\ TheRun("sched").status = "failed"
      /\ ex'["sched"].pc = "idle" )
    => /\ ex["sched"].cron.present => winterns'[ex["sched"].wid].next_run_at # {}
       /\ \A n \in winterns'[ex["sched"].wid].next_run_at : n > now'
       /\ ex["sched"].wid \notin { w \in Winterns :
             /\ winterns'[w].is_active
             /\ \E n \in winterns'[w].next_run_at : n <= now' }
C4_FailingWinternOncePerSlot == []OncePerSlot /\ [][CommitsFutureRun]_<< ex, winterns >>

\* Two failed scheduler runs of one wintern, the second in a later slot.
C4_Witness ==
    \E r1 \in DOMAIN runs, r2 \in DOMAIN runs :
        /\ r1 < r2
        /\ SchedulerFailure(r1)
        /\ SchedulerFailure(r2)
        /\ runs[r2].wintern_id = runs[r1].wintern_id
        /\ runs[r2].called_at > runs[r1].called_at

\* C5: a wintern with no active source ends in a failed run whose message
\* mentions sources, next_run_at advanced to a future time when a schedule
\* exists, and NoSourcesConfiguredError raised to the caller; with an active
\* source and no active delivery the failed run's message mentions delivery
\* and NoDeliveryConfiguredError is raised.
MentionsSources(msg) == msg \in { "No active sources configured" }
MentionsDelivery(msg) == msg \in { "No active delivery channels configured" }
C5_MisconfiguredRunFails ==
    \A t \in Tasks :
        Exited(t) =>
            /\ ex[t].active_sources = << >> =>
                 /\ TheRun(t).status = "failed"
                 /\ MentionsSources(TheRun(t).error_message)
                 /\ ex[t].exit = "NoSourcesConfiguredError"
                 /\ ex[t].wrote_next
                 /\ ex[t].cron.present =>
                      /\ ex[t].next_run_at # {}
                      /\ \A n \in ex[t].next_run_at : n > now
            /\ (ex[t].active_sources # << >> /\ ex[t].active_deliveries = << >>) =>
                 /\ TheRun(t).status = "failed"
                 /\ MentionsDelivery(TheRun(t).error_message)
                 /\ ex[t].exit = "NoDeliveryConfiguredError"

\* A scheduled wintern without an active source has been executed.
C5_Witness ==
    \E t \in Tasks :
        /\ Exited(t)
        /\ ex[t].active_sources = << >>
        /\ ex[t].cron.present
        /\ TheRun(t).status = "failed"

\* C21: POST /run answers 400 for a wintern without an active source or
\* without an active delivery channel and no run of a manual trigger ever
\* carries the error of that misconfiguration; the run the scheduler makes
\* for such a wintern is stored as failed with that error.
Misconfigured(w) ==
    \/ ActiveOf(winterns[w].source_configs) = << >>
    \/ ActiveOf(winterns[w].delivery_configs) = << >>
C21_MisconfigurationRejectedBeforeRun ==
    /\ \A w \in Winterns : Misconfigured(w) => trigger_run(w) = "400 Bad Request"
    /\ \A r \in DOMAIN runs :
         /\ runs[r].by = "manual" =>
               /\ ~Misconfigured(runs[r].wintern_id)
               /\ ~MentionsSources(runs[r].error_message)
               /\ ~MentionsDelivery(runs[r].error_message)
         /\ ( /\ runs[r].by = "sched"
              /\ Misconfigured(runs[r].wintern_id)
              /\ runs[r].tx # "open" ) =>
               /\ runs[r].tx = "committed"
               /\ runs[r].status = "failed"
               /\ \/ MentionsSources(runs[r].error_message)
                  \/ MentionsDelivery(runs[r].error_message)

\* The scheduler has executed a wintern without an active delivery channel
\* and the failed run is committed.
C21_Witness ==
    \E r \in DOMAIN runs :
        /\ runs[r].by = "sched"
        /\ runs[r].tx = "committed"
        /\ MentionsDelivery(runs[r].error_message)
        /\ trigger_run(runs[r].wintern_id) = "400 Bad Request"

\* C22: a call of execute_wintern with an id no wintern has raises
\* ExecutionError and leaves the run records, the seen content, the
\* winterns with their next_run_at, and the locals of every task as they
\* were: no run is created and no collaborator is called.
C22_MissingWinternChangesNothing ==
    [][ ( call'.made # call.made /\ call'.wintern_id \notin DOMAIN winterns ) =>
          /\ call'.raised = "ExecutionError"
          /\ runs' = runs
          /\ seen' = seen
          /\ winterns' = winterns
          /\ ex' = ex ]_<< call, ex, seen, winterns >>

\* A run of the wintern is stored and a call with the missing id has been
\* made after it.
C22_Witness ==
    /\ call.wintern_id = MissingId
    /\ call.raised = "ExecutionError"
    /\ Len(runs) = 1
    /\ runs[1].tx = "committed"
    /\ seen # {}

\* C23: when the interpreter, the curator or the composer has raised, each
\* agent was called at most once, the run is failed with the message of the
\* exception and the metadata counted up to the failure, update_next_run_at
\* has advanced next_run_at, and execute_wintern raises ExecutionError.
AgentFailures == { "interpreter failed", "curator failed", "composer failed" }
C23_AgentFailureFailsTheRun ==
    \A t \in Tasks :
        (Exited(t) /\ ex[t].exc_msg \in AgentFailures) =>
            /\ TheRun(t).calls.interpret <= 1
            /\ TheRun(t).calls.curate <= 1
            /\ TheRun(t).calls.compose <= 1
            /\ TheRun(t).status = "failed"
            /\ TheRun(t).error_message = ex[t].exc_msg
            /\ TheRun(t).metadata = ex[t].metadata
            /\ ex[t].exc_msg # "interpreter failed" =>
                  /\ ex[t].metadata.total_searched = Len(ex[t].all_results)
                  /\ ex[t].metadata.new_content = Len(ex[t].new_results)
            /\ ex[t].exc_msg = "composer failed" =>
                  ex[t].metadata.curated = Len(ex[t].items)
            /\ ex[t].wrote_next
            /\ ex[t].cron.present =>
                  /\ ex[t].next_run_at # {}
                  /\ \A n \in ex[t].next_run_at : n > now
            /\ ex[t].exit = "ExecutionError"

\* C6: when no search result survives deduplication the run ends completed
\* with the digest "No new content found."; the curator, the composer and
\* the delivery channels are never invoked and no SeenContent row is added.
C6_NothingNewCompletes ==
    \A t \in Tasks :
        (Exited(t) /\ ex[t].queries > 0 /\ ex[t].new_results = << >>) =>
            /\ TheRun(t).status = "completed"
            /\ TheRun(t).digest_content = NoNewContent
            /\ TheRun(t).calls.curate = 0
            /\ TheRun(t).calls.compose = 0
            /\ TheRun(t).calls.deliver = << >>
            /\ \A row \in seen : row.run_id # ex[t].run

\* C7: when the curator returns no item the run ends completed with the
\* digest "No relevant content found after curation.", every deduplicated
\* item is recorded as seen, the composer and the delivery channels are not
\* called, and a later run of the wintern whose searches return the same
\* results finds nothing new.
CuratedNothing(t) ==
    /\ TheRun(t).calls.curate = 1
    /\ TheRun(t).calls.record = 1
    /\ ex[t].items = << >>
AfterDedup(t) ==
    /\ ex[t].queries > 0
    /\ ex[t].pc \notin { "idle", "start", "interpret", "search", "dedup" }
C7_NothingRelevantCompletes ==
    /\ \A t \in Tasks :
         (Exited(t) /\ CuratedNothing(t)) =>
            /\ TheRun(t).status = "completed"
            /\ TheRun(t).digest_content = NoRelevantContent
            /\ \A i \in DOMAIN ex[t].new_results :
                 compute_content_hash(ex[t].new_results[i].url)
                     \in get_seen_hashes(t, ex[t].wid)
            /\ TheRun(t).calls.compose = 0
            /\ TheRun(t).calls.deliver = << >>
    /\ \A t \in Tasks, r1 \in DOMAIN runs :
         ( /\ AfterDedup(t)
           /\ r1 < ex[t].run
           /\ runs[r1].wintern_id = ex[t].wid
           /\ runs[r1].digest_content = NoRelevantContent
           /\ runs[r1].found = TheRun(t).found )
         => ex[t].new_results = << >>

\* C8: search is invoked exactly once for every pair of an active source of
\* an implemented type and a query of the interpreter, in the order of the
\* loops, whether or not earlier pairs failed; each failing pair appends one
\* source error prefixed with the name of its source, and no failure ends
\* the search phase early.
ImplementedSources(e) ==
    SelectSeq([ i \in 1..Len(e.active_sources) |-> i ],
              LAMBDA i : create_data_source(e.active_sources[i]) # Unsupported)
ExpectedPairs(e) ==
    LET impl == ImplementedSources(e)
    IN  [ k \in 1..(Len(impl) * e.queries) |->
            << impl[((k - 1) \div e.queries) + 1], ((k - 1) % e.queries) + 1 >> ]
SearchedPairs(run) ==
    [ k \in 1..Len(run.calls.search) |->
        << run.calls.search[k].si, run.calls.search[k].qi >> ]
\* The error entries the search calls of the run account for, in order.
ErrorsOfFailedPairs(e, run) ==
    LET failed == SelectSeq(run.calls.search, LAMBDA c : c.raised)
    IN  [ k \in 1..Len(failed) |->
            [ prefix |-> create_data_source(e.active_sources[failed[k].si]),
              msg |-> "search failed" ] ]
SearchErrors(e) ==
    SelectSeq(e.metadata.source_errors, LAMBDA x : x.prefix # "Unsupported source type")
C8_EveryPairSearchedOnce ==
    \A t \in Tasks :
        /\ ex[t].pc = "search" =>
             /\ IsPrefix(SearchedPairs(TheRun(t)), ExpectedPairs(ex[t]))
             /\ SearchErrors(ex[t]) = ErrorsOfFailedPairs(ex[t], TheRun(t))
        /\ AfterDedup(t) \/ (ex[t].queries > 0 /\ ex[t].pc = "dedup") =>
             /\ SearchedPairs(TheRun(t)) = ExpectedPairs(ex[t])
             /\ SearchErrors(ex[t]) = ErrorsOfFailedPairs(ex[t], TheRun(t))

\* The search phase is over for several sources and two queries, and the
\* first pair had failed.
C8_Witness ==
    \E t \in Tasks :
        /\ ex[t].pc = "dedup"
        /\ ex[t].queries = 2
        /\ Len(ImplementedSources(ex[t])) = 2
        /\ Len(ex[t].active_sources) = 3
        /\ Len(TheRun(t).calls.search) = 4
        /\ TheRun(t).calls.search[1].raised
        /\ ~TheRun(t).calls.search[2].raised
        /\ TheRun(t).calls.search[3].raised

\* C9: every active delivery channel is attempted, in order, whatever the
\* outcome of the channels before it, and metadata.deliveries ends with
\* exactly one entry (channel, success, error) per active delivery channel.
Composed(t) == ex[t].digest = "digest body_plain" /\ TheRun(t).calls.compose = 1
Attempted(n) == [ i \in 1..n |-> i ]
EntryOfChannel(entry, cfg) ==
    /\ DOMAIN entry = { "channel", "success", "error" }
    /\ entry.channel = cfg.type
    /\ entry.success \in BOOLEAN
C9_EveryChannelAttempted ==
    \A t \in Tasks :
        Composed(t) =>
            LET e == ex[t]
                n == IF e.pc = "deliver" THEN e.di - 1 ELSE Len(e.active_deliveries)
            IN  /\ TheRun(t).calls.deliver = Attempted(n)
                /\ Len(e.metadata.deliveries) = n
                /\ \A i \in 1..n :
                     EntryOfChannel(e.metadata.deliveries[i], e.active_deliveries[i])

\* The delivery loop is over for three active channels: the first is of an
\* unsupported type, the second raised, the third succeeded.
C9_Witness ==
    \E t \in Tasks :
        /\ Composed(t)
        /\ ex[t].pc = "complete"
        /\ Len(ex[t].active_deliveries) = 3
        /\ ex[t].metadata.deliveries[1].error = "Unsupported delivery type"
        /\ ex[t].metadata.deliveries[2].error = "deliver raised"
        /\ ex[t].metadata.deliveries[3].success

\* C10: delivery failures are not fatal: when a channel's deliver raises, or
\* every channel fails, the run ends completed, execute_wintern returns the
\* run id without raising, and the entry of a channel that raised has
\* success = false and an error message.
DeliveryRaised(e) ==
    \E i \in DOMAIN e.metadata.deliveries : e.metadata.deliveries[i].error = "deliver raised"
EveryChannelFailed(e) ==
    /\ e.metadata.deliveries # << >>
    /\ \A i \in DOMAIN e.metadata.deliveries : ~e.metadata.deliveries[i].success
C10_DeliveryFailuresNotFatal ==
    \A t \in Tasks :
        (Exited(t) /\ (DeliveryRaised(ex[t]) \/ EveryChannelFailed(ex[t]))) =>
            /\ TheRun(t).status = "completed"
            /\ ex[t].exit = "returned"
            /\ \A i \in DOMAIN TheRun(t).metadata.deliveries :
                 TheRun(t).metadata.deliveries[i].error = "deliver raised" =>
                    /\ ~TheRun(t).metadata.deliveries[i].success
                    /\ TheRun(t).metadata.deliveries[i].error # NULL

\* C11: the list handed to the curator holds no item whose URL hash was in
\* the wintern's seen set read at the start of deduplication and no two
\* items with the same URL hash: of the results with one URL the first is
\* kept, in the order of the search results.
HashOf(item) == compute_content_hash(item.url)
FirstNewPositions(results, seen_hashes) ==
    SelectSeq([ k \in 1..Len(results) |-> k ],
              LAMBDA k : /\ HashOf(results[k]) \notin seen_hashes
                         /\ \A j \in 1..(k - 1) : HashOf(results[j]) # HashOf(results[k]))
DedupKeepsFirstNew(t) ==
    (ex[t].pc = "dedup" /\ ex'[t].pc # "dedup") =>
        LET kept == ex'[t].new_results
            seen_hashes == get_seen_hashes(t, ex[t].wid)
            first == FirstNewPositions(ex[t].all_results, seen_hashes)
        IN  /\ \A i \in DOMAIN kept : HashOf(kept[i]) \notin seen_hashes
            /\ \A i \in DOMAIN kept, j \in DOMAIN kept :
                 i # j => HashOf(kept[i]) # HashOf(kept[j])
            /\ kept = [ i \in 1..Len(first) |-> ex[t].all_results[first[i]] ]
C11_CuratorGetsFirstNewOccurrences == [][\A t \in Tasks : DedupKeepsFirstNew(t)]_ex

\* The searches of a run returned one URL twice and a URL an earlier run
\* recorded, and the curator is handed the one new item.
C11_Witness ==
    \E t \in Tasks :
        /\ ex[t].pc = "curate"
        /\ Len(ex[t].all_results) = 4
        /\ Len(ex[t].new_results) = 1
        /\ \E i \in DOMAIN ex[t].all_results :
             HashOf(ex[t].all_results[i]) \in get_seen_hashes(t, ex[t].wid)
        /\ \E i \in DOMAIN ex[t].all_results, j \in DOMAIN ex[t].all_results :
             /\ i < j
             /\ ex[t].all_results[i].url = ex[t].new_results[1].url
             /\ ex[t].all_results[j].url = ex[t].new_results[1].url

\* C17: when the run of a due wintern has failed, with an ExecutionError or
\* with any other exception, the tick goes on with the due winterns that
\* remain.
C17_FailureDoesNotBlockTheTick ==
    [][ ( /\ ex["sched"].pc = "exited"
          /\ ex["sched"].exit # "returned"
          /\ ex'["sched"].pc = "idle" )
        => due' = Tail(due) ]_<< ex, due >>

\* C18: the query of a tick returns each wintern that is due once, the tick
\* starts its runs for the winterns of the query in turn, and a wintern
\* leaves the list only after its run.
C18_TickRunsExactlyTheDueWinterns ==
    [][ /\ (due = << >> /\ due' # << >>) =>
              /\ { due'[i].id : i \in DOMAIN due' } = get_due_winterns(now)
              /\ Len(due') = Cardinality(get_due_winterns(now))
        /\ (ex["sched"].pc = "idle" /\ ex'["sched"].pc # "idle") =>
              /\ due # << >>
              /\ ex'["sched"].wid = Head(due).id
        /\ (due # << >> /\ due' # due) =>
              /\ ex["sched"].pc = "exited"
              /\ ex["sched"].wid = Head(due).id
              /\ due' = Tail(due) ]_<< ex, due >>

\* C19: in every state reachable through create_wintern, update_wintern,
\* delete_wintern and orchestrator runs the next_run_at of a wintern is
\* non-null if and only if the wintern is active and has a schedule.
C19_NextRunIffActiveAndScheduled ==
    \A w \in DOMAIN winterns :
        winterns[w].next_run_at # {}
            <=> (winterns[w].is_active /\ winterns[w].cron_schedule.present)

\* C20: calculate_next_run_at returns the earliest firing time of the
\* schedule strictly later than the reference time; for "0 9 * * *" the
\* reference 08:00 gives 09:00 of the same day, 09:30 gives 09:00 of the next
\* day, and 09:00 exactly gives 09:00 of the next day.
Fires(cron, t) == t % cron.period = cron.offset
C20_NextFiringStrictlyLater ==
    (call.op = "calculate_next_run_at" /\ call.result # {}) =>
        \A r \in call.result :
            /\ r > call.base
            /\ Fires(call.cron, r)
            /\ \A t \in (call.base + 1)..(r - 1) : ~Fires(call.cron, t)
            /\ call.cron = DailyAtNine =>
                 /\ call.base = 16 => r = 18
                 /\ call.base = 19 => r = 48 + 18
                 /\ call.base = 18 => r = 48 + 18

\* The call for "0 9 * * *" with a reference at 09:00 exactly has returned.
C20_Witness ==
    /\ call.op = "calculate_next_run_at"
    /\ call.cron = DailyAtNine
    /\ call.base = 18
    /\ call.result = { 48 + 18 }

\* C12: the value record_seen_content_batch returns is the number of hashes
\* in the batch that the wintern had not recorded before (a batch of pairs
\* already stored returns 0, a hash given twice in one batch counts once),
\* and after any sequence of calls the hashes stored for a wintern are
\* exactly the hashes of the URLs passed for it.
C12_BatchRecordIdempotent ==
    call.op = "record_seen_content_batch" =>
        /\ call.returned =
               Cardinality(HashesOf({ call.items[i].url : i \in DOMAIN call.items })
                           \ HashesOf(call.earlier[call.wid]))
        /\ \A w \in BatchWinterns :
               get_seen_hashes("manual", w) = HashesOf(call.recorded[w])

\* A batch of pairs that are all stored already was recorded again.
C12_Witness ==
    /\ call.op = "record_seen_content_batch"
    /\ call.made >= 2
    /\ call.items # << >>
    /\ call.returned = 0
    /\ seen # {}

\* C13: the table never holds two rows with the same wintern and content
\* hash, the rows of open transactions included, also while two runs of one
\* wintern overlap.
C13_OneRowPerWinternAndHash ==
    \A r1 \in seen, r2 \in seen :
        (r1.wintern_id = r2.wintern_id /\ r1.content_hash = r2.content_hash) => r1 = r2

\* Two overlapping runs have both recorded the same URL: one stored the
\* row, the other's insert skipped it.
C13_Witness ==
    /\ Len(runs) = 2
    /\ runs[1].batch # << >>
    /\ runs[2].batch # << >>
    /\ \E i \in DOMAIN runs[1].batch, j \in DOMAIN runs[2].batch :
         runs[1].batch[i].url = runs[2].batch[j].url
    /\ \E t \in Tasks : ex[t].pc = "compose" /\ ex[t].inserted < Len(ex[t].new_results)
    /\ \E t \in Tasks : ex[t].pc = "idle"
    /\ seen # {}

\* C14: no run ends in a uniqueness violation, and the rowcounts the batch
\* inserts of a wintern's runs returned add up to no more than the distinct
\* URLs of their batches.
RECURSIVE SumOfInserted(_)
SumOfInserted(n) == IF n = 0 THEN 0 ELSE runs[n].inserted + SumOfInserted(n - 1)
C14_ConcurrentBatchesCountOnce ==
    /\ \A r \in DOMAIN runs : runs[r].exit # "IntegrityError"
    /\ SumOfInserted(Len(runs))
         <= Cardinality(UNION { UrlsOf(runs[r].batch) : r \in DOMAIN runs })

CommittedHashes(wid) ==
    { row.content_hash :
        row \in { r \in seen : r.wintern_id = wid /\ runs[r.run_id].tx = "committed" } }
C16_WinternsIsolated ==
    call.op = "record_seen_content_batch" =>
        \A w \in BatchWinterns :
            /\ Cardinality(get_seen_hashes("manual", w)) = Cardinality(call.recorded[w])
            /\ w # call.wid => get_seen_hashes("manual", w) = call.before[w]
            /\ \A u \in URLs \ call.recorded[w] :
                   Dedup(<< [ url |-> u, source |-> "brave_search" ] >>,
                         get_seen_hashes("manual", w))
                     = << [ url |-> u, source |-> "brave_search" ] >>

\* w2 recorded a URL that w1 had recorded before, and w1 still lacks one
\* that w2 has.
C16_Witness ==
    /\ call.op = "record_seen_content_batch"
    /\ call.wid = "w2"
    /\ call.returned = 1
    /\ call.recorded["w2"] = {"u1", "u2"}
    /\ call.earlier["w2"] = {"u2"}
    /\ call.recorded["w1"] = {"u1"}

\* C24: for any sequence of transient outcomes (5xx, timeout, transport
\* error, 429) a configured adapter's search makes at most max_retries
\* search requests; it returns on the first successful one, or after
\* max_retries failed ones it raises a rate-limit error when the last
\* failure was a 429 and an API error otherwise.
C24_TransientFailuresBounded ==
    (call.configured /\ call.token_ok /\ call.transient_only) =>
        /\ call.searches <= call.max_retries
        /\ call.pc = "returned" => Success(call.last)
        /\ call.pc = "raised" =>
             /\ call.searches = call.max_retries
             /\ call.raised.type =
                  IF call.last.kind = "response" /\ call.last.status_code = 429
                  THEN "RateLimitError" ELSE "APIError"

\* C25 as stated: a 4xx response other than 429 ends the call at once with
\* an API error carrying that status code, in every adapter.
C25_ClientErrorNeverRetried ==
    (call.last.kind = "response" /\ call.last.status_code \in 400..499
        /\ call.last.status_code # 429 /\ call.token_ok) =>
        /\ call.pc = "raised"
        /\ call.raised = Error("APIError", call.last.status_code)

\* C25: a 4xx response to a search request, other than 429 and other than
\* 401 in the Reddit adapter, is never retried: the call ends at once with
\* an API error carrying that status code, and no status of that kind is
\* ever among the retried ones.
C25_ClientErrorNeverRetriedUnlessRedditAuth ==
    /\ \A s \in call.retried :
         s \in 400..499 => s = 429 \/ (call.adapter = "reddit" /\ s = 401)
    /\ (call.last.kind = "response" /\ call.last.status_code \in 400..499
          /\ call.last.status_code # 429 /\ call.token_ok
          /\ ~(call.adapter = "reddit" /\ call.last.status_code = 401)) =>
          /\ call.pc = "raised"
          /\ call.raised = Error("APIError", call.last.status_code)

C25_Witness ==
    /\ call.adapter = "reddit"
    /\ call.searches = 2
    /\ 401 \in call.retried
    /\ call.raised = Error("APIError", 404)

\* C26: deliver never raises across the interface: when it has ended it
\* has returned a DeliveryResult, and a result with success = false carries
\* a non-empty error message.
C26_DeliverNeverRaises ==
    call.pc = "done" =>
        /\ call.raised = NULL
        /\ call.result.channel = "slack"
        /\ ~call.result.success => call.result.error_message \notin { NULL, "" }

\* C27: the factories answer every type tag without an implementation (rss,
\* news_api, email, sms, an unknown tag) with the unsupported-type error and
\* every other tag with an adapter; in a run an unsupported active source
\* adds exactly one "Unsupported source type" entry to source_errors while
\* every pair of the other sources is still searched, and an unsupported
\* active delivery adds one success = false entry to deliveries while every
\* other channel is still attempted.
NoImplementation == {"rss", "news_api", "email", "sms", "unknown"}
TypesOf(cfgs) == [ i \in 1..Len(cfgs) |-> cfgs[i].type ]
UnsupportedEntries(e) ==
    SelectSeq(e.metadata.source_errors, LAMBDA x : x.prefix = "Unsupported source type")
PairsOfImplemented(e) ==
    { << i, q >> : i \in { j \in 1..Len(e.active_sources) :
                             e.active_sources[j].type \notin NoImplementation },
                   q \in 1..e.queries }
C27_UnsupportedTypesDoNotAbort ==
    /\ \A ty \in SourceType \cup {"unknown"} :
         (create_data_source(Cfg(ty, TRUE)) = Unsupported) <=> ty \in NoImplementation
    /\ \A ty \in DeliveryType \cup {"unknown"} :
         (create_delivery_channel(Cfg(ty, TRUE)) = Unsupported) <=> ty \in NoImplementation
    /\ \A t \in Tasks :
         LET e == ex[t]
         IN  /\ AfterDedup(t) \/ e.pc = "dedup" =>
                  /\ TypesOf([ i \in 1..Len(UnsupportedEntries(e)) |->
                                 [ type |-> UnsupportedEntries(e)[i].msg ] ])
                       = TypesOf(SelectSeq(e.active_sources,
                                           LAMBDA c : c.type \in NoImplementation))
                  /\ { SearchedPairs(TheRun(t))[k] : k \in 1..Len(TheRun(t).calls.search) }
                       = PairsOfImplemented(e)
             /\ Composed(t) /\ e.pc = "complete" =>
                  /\ Len(e.metadata.deliveries) = Len(e.active_deliveries)
                  /\ TheRun(t).calls.deliver = Attempted(Len(e.active_deliveries))
                  /\ \A i \in 1..Len(e.active_deliveries) :
                       e.active_deliveries[i].type \in NoImplementation =>
                           e.metadata.deliveries[i] =
                               [ channel |-> e.active_deliveries[i].type,
                                 success |-> FALSE,
                                 error |-> "Unsupported delivery type" ]

\* The search phase of a run with the active sources rss, brave_search and
\* reddit is over: one unsupported-type entry, and both other sources were
\* searched with both queries without a failure.
C27_Witness ==
    \E t \in Tasks :
        /\ ex[t].pc = "dedup"
        /\ ex[t].queries = 2
        /\ TypesOf(ex[t].active_sources) = << "rss", "brave_search", "reddit" >>
        /\ ex[t].metadata.source_errors =
             << [ prefix |-> "Unsupported source type", msg |-> "rss" ] >>
        /\ Len(TheRun(t).calls.search) = 4

\* C28: delivery is at-least-once with respect to dedup: when a caller
\* commits a run, every URL the curator selected in it and the run recorded
\* as seen has been delivered successfully by some run.
C28_SeenCuratedUrlWasDelivered ==
    [][ \A t \in Tasks :
          (Exited(t) /\ runs'[ex[t].run].tx = "committed") =>
              \A u \in UrlsOf(ex[t].items) :
                  (\E row \in seen' : row.run_id = ex[t].run /\ row.source_url = u)
                      => \E r \in DOMAIN runs' : u \in runs'[r].delivered ]_<< ex, winterns >>

\* C29: in the metadata stored with a run, total_searched is the number of
\* results the successful searches returned, new_content the number of
\* results that survived deduplication (at most total_searched), curated
\* the number of items the curator returned, and deliveries has entries
\* only when the delivery phase was reached; on the full path with one
\* channel that succeeds the run is completed and deliveries is the one
\* entry of that channel with success = true.
RECURSIVE SumReturned(_)
SumReturned(searches) ==
    IF searches = << >> THEN 0
    ELSE Head(searches).returned + SumReturned(Tail(searches))
FullPathOneChannel(t) ==
    /\ Composed(t)
    /\ Len(ex[t].active_deliveries) = 1
    /\ DeliveredUrls(t) # {}
C29_MetadataCounters ==
    \A t \in Tasks :
        (Exited(t) /\ TheRun(t).status \in Terminal) =>
            LET m == TheRun(t).metadata
                run == TheRun(t)
            IN  /\ m.total_searched = SumReturned(run.calls.search)
                /\ m.new_content = Len(ex[t].new_results)
                /\ run.calls.record = 1 => m.new_content = Len(run.batch)
                /\ m.new_content <= m.total_searched
                /\ m.curated = Len(ex[t].items)
                /\ m.deliveries # << >> =>
                     run.calls.compose = 1 /\ run.calls.deliver # << >>
                /\ FullPathOneChannel(t) =>
                     /\ run.status = "completed"
                     /\ m.deliveries =
                          << [ channel |-> ex[t].active_deliveries[1].type,
                               success |-> TRUE, error |-> NULL ] >>

\* C30: a committed request of update_wintern that sets neither is_active
\* nor cron_schedule leaves next_run_at as it was; one that sets either of them
\* leaves next_run_at at the first firing time after the request when the
\* wintern is then active with a schedule, and null otherwise;
\* delete_wintern leaves is_active false and next_run_at null.
NextFiringAfter(cron, at) ==
    { r \in (at + 1)..(at + cron.period) :
        Fires(cron, r) /\ \A t \in (at + 1)..(r - 1) : ~Fires(cron, t) }
C30_UpdateAndDeleteSetNextRunAt ==
    /\ (call.op = "update_wintern" /\ ~call.raised) =>
         LET row == winterns[call.wid]
         IN  IF ~call.has_active /\ ~call.has_cron
             THEN row.next_run_at = call.before.next_run_at
             ELSE row.next_run_at =
                    IF row.is_active /\ row.cron_schedule.present
                    THEN NextFiringAfter(row.cron_schedule, call.at)
                    ELSE {}
    /\ call.op = "delete_wintern" =>
         /\ ~winterns[call.wid].is_active
         /\ winterns[call.wid].next_run_at = {}

\* A request that sets neither field reached a wintern whose firing time had
\* passed, and the firing time is still there.
C30_Witness ==
    /\ call.op = "update_wintern"
    /\ ~call.has_active /\ ~call.has_cron
    /\ call.at = 3
    /\ call.before.next_run_at = { CronPeriod }
    /\ winterns[call.wid].next_run_at = { CronPeriod }

\* C31 as stated: no run the scheduler has made is rolled back, whatever
\* execute_wintern ended with.
C31_SchedulerNeverDiscardsARun ==
    \A r \in DOMAIN runs : runs[r].by = "sched" => runs[r].tx # "rolledback"

\* C31: a scheduled attempt that execute_wintern ends by returning or with
\* an ExecutionError (the errors of a misconfigured wintern included) leaves
\* a committed run in a terminal status; the scheduler rolls an attempt back
\* only when execute_wintern ends with another exception.
C31_SchedulerCommitsExecutionErrors ==
    \A r \in DOMAIN runs :
        (runs[r].by = "sched" /\ runs[r].tx # "open") =>
            /\ runs[r].tx = "committed" <=>
                 runs[r].exit \in { "returned", "ExecutionError",
                                    "NoSourcesConfiguredError",
                                    "NoDeliveryConfiguredError" }
            /\ runs[r].tx = "committed" => runs[r].status \in Terminal

\* The scheduler has committed the failed run of an attempt that ended with
\* ExecutionError.
C31_Witness ==
    \E r \in DOMAIN runs :
        /\ runs[r].by = "sched"
        /\ runs[r].tx = "committed"
        /\ runs[r].exit = "ExecutionError"
        /\ runs[r].status = "failed"

\* C32: within one run the phases come in the order interpret, search (all
\* pairs), dedup, curate, record, compose, deliver (all channels), terminal
\* write: a phase has been entered only when the one before it is finished,
\* seen content is recorded before the composer or any channel is called,
\* nothing is called once the run is terminal, and neither the interpreter
\* nor a source is called when no source or no delivery is active.
SearchFinished(t) ==
    /\ TheRun(t).calls.interpret = 1
    /\ SearchedPairs(TheRun(t)) = ExpectedPairs(ex[t])
PhasesInOrder(t) ==
    LET c == TheRun(t).calls
        e == ex[t]
    IN  /\ c.interpret <= 1 /\ c.curate <= 1 /\ c.record <= 1 /\ c.compose <= 1
        /\ c.search # << >> => c.interpret = 1
        /\ c.curate = 1 => SearchFinished(t) /\ e.metadata.new_content = Len(e.new_results)
        /\ c.record = 1 => c.curate = 1
        /\ c.compose = 1 => c.record = 1 /\ TheRun(t).batch = e.new_results
        /\ c.deliver # << >> => c.compose = 1 /\ c.record = 1 /\ e.digest # NULL
        /\ "completed" \in { TheRun(t).trail[i] : i \in DOMAIN TheRun(t).trail } =>
             /\ c.interpret = 1 /\ SearchFinished(t)
             /\ c.compose = 1 => c.deliver = Attempted(Len(e.active_deliveries))
        /\ (e.pc \notin { "start" } /\ (e.active_sources = << >> \/ e.active_deliveries = << >>)) =>
             c.interpret = 0 /\ c.search = << >>
NothingAfterTerminalWrite ==
    \A t \in Tasks :
        (Busy(t) /\ Busy(t)' /\ ex[t].run = ex'[t].run /\ TheRun(t).status \in Terminal) =>
            /\ runs'[ex[t].run].calls.interpret = TheRun(t).calls.interpret
            /\ runs'[ex[t].run].calls.search = TheRun(t).calls.search
            /\ runs'[ex[t].run].calls.curate = TheRun(t).calls.curate
            /\ runs'[ex[t].run].calls.record = TheRun(t).calls.record
            /\ runs'[ex[t].run].calls.compose = TheRun(t).calls.compose
            /\ runs'[ex[t].run].calls.deliver = TheRun(t).calls.deliver
C32_PhasesStrictlyOrdered ==
    /\ [](\A t \in Tasks : Busy(t) => PhasesInOrder(t))
    /\ [][NothingAfterTerminalWrite]_<< ex, runs >>

\* A run went through every phase and is completed: three channels were
\* attempted after the composer, the composer after the batch insert.
C32_Witness ==
    \E t \in Tasks :
        /\ Exited(t)
        /\ TheRun(t).status = "completed"
        /\ TheRun(t).calls.interpret = 1
        /\ Len(TheRun(t).calls.search) = 2
        /\ TheRun(t).calls.curate = 1
        /\ TheRun(t).calls.record = 1
        /\ TheRun(t).calls.compose = 1
        /\ TheRun(t).calls.deliver = << 1, 2, 3 >>

\* C33: in every run record error_message is non-null exactly when the
\* status is failed, a completed run has a non-null digest_content and a
\* null error_message, completed_at is non-null exactly when the status is
\* completed or failed, and started_at is null while the status is pending.
C33_RunRecordWellFormed ==
    \A r \in DOMAIN runs :
        /\ runs[r].error_message # NULL <=> runs[r].status = "failed"
        /\ runs[r].status = "completed" =>
             runs[r].digest_content # NULL /\ runs[r].error_message = NULL
        /\ runs[r].completed_at # {} <=> runs[r].status \in Terminal
        /\ runs[r].status = "pending" => runs[r].started_at = {}
        /\ runs[r].status # "pending" => runs[r].started_at # {}

\* One committed run of each terminal status, the failed one with the
\* message of the composer's exception.
C33_Witness ==
    \E r1 \in DOMAIN runs, r2 \in DOMAIN runs :
        /\ runs[r1].status = "completed" /\ runs[r1].tx = "committed"
        /\ runs[r1].digest_content = "digest body_plain"
        /\ runs[r2].status = "failed" /\ runs[r2].tx = "committed"
        /\ runs[r2].error_message = "composer failed"
        /\ runs[r2].completed_at # {}

\* C34: each source type has one process-wide single-slot gate: at most one
\* task holds it at a time, and the instants at which successive tasks leave
\* it to issue their request are at least the minimum inter-request interval
\* of that source type apart.
InsideGate(a) == { t \in Tasks : call.task[t].pc = "sleep" /\ call.task[t].adapter = a }

C34_RateLimitGate ==
    \A a \in Adapters :
        /\ Cardinality(InsideGate(a)) <= 1
        /\ call.semaphore[a] = 1 - Cardinality(InsideGate(a))
        /\ \A i \in 1..Len(call.left[a]) :
             i > 1 => call.left[a][i] - call.left[a][i - 1] >= min_interval(a, call.rps)

\* Two tasks asked for the same gate at the same instant; one slept inside
\* while the other waited for the slot, and they left one interval apart.
C34_Witness ==
    \E a \in Adapters :
        /\ min_interval(a, call.rps) > 0
        /\ Len(call.left[a]) = 2
        /\ call.left[a][2] - call.left[a][1] = min_interval(a, call.rps)
        /\ \E t \in Tasks : call.task[t].pc = "sleep" /\ call.task[t].adapter = a
        /\ \E t \in Tasks : call.task[t].pc = "acquire" /\ call.task[t].adapter = a

\* C35: the poll job never runs concurrently with itself: a wakeup while the
\* previous instance is still executing starts no second one; and a wakeup
\* after several intervals have passed hands one run time to the executor
\* and calls the job at most once.
C35_PollJobNeverOverlapsAndCoalesces ==
    /\ \A i \in 1..Len(call.schedulers) : call.schedulers[i].instances <= 1
    /\ call.last.submitted <= 1
    /\ call.last.started <= call.last.submitted
    /\ Cardinality({ i \in 1..Len(call.schedulers) :
                       call.schedulers[i].instances > 0 }) <= 1

\* One wakeup came two intervals late and ran the job once, and a later
\* wakeup found that instance still executing and was skipped.
C35_Witness ==
    /\ call.caught_up
    /\ call.skipped
    /\ call.last = [ due |-> 1, submitted |-> 1, started |-> 0 ]
    /\ \E i \in 1..Len(call.schedulers) : call.schedulers[i].instances = 1

\* C38: after any sequence of start_scheduler and shutdown_scheduler calls at
\* most one scheduler is running and it holds exactly the job
\* check_due_winterns; start_scheduler while one is running returns it and
\* adds nothing; shutdown_scheduler with no scheduler or with one that is not
\* running changes nothing; after the shutdown of a running scheduler
\* get_scheduler returns None.
RunningSchedulers(c) == { i \in 1..Len(c.schedulers) : c.schedulers[i].running }

LifecycleCall(name) == call'.calls = call.calls + 1 /\ call'.op = name

LifecycleStep ==
    /\ (LifecycleCall("start_scheduler") /\ scheduler_running(call)) =>
          /\ call'.returned = call._scheduler
          /\ call'._scheduler = call._scheduler
          /\ call'.schedulers = call.schedulers
    /\ (LifecycleCall("shutdown_scheduler") /\ ~scheduler_running(call)) =>
          /\ call'._scheduler = call._scheduler
          /\ call'.schedulers = call.schedulers
    /\ (LifecycleCall("shutdown_scheduler") /\ scheduler_running(call)) =>
          /\ get_scheduler(call') = 0
          /\ RunningSchedulers(call') = {}

C38_SchedulerLifecycle ==
    /\ [](/\ Cardinality(RunningSchedulers(call)) <= 1
          /\ \A i \in RunningSchedulers(call) :
               /\ call.schedulers[i].jobs = << "check_due_winterns" >>
               /\ get_scheduler(call) = i)
    /\ [][LifecycleStep]_call

\* A scheduler was started and shut down, and a second one was started and
\* is the one get_scheduler returns.
C38_Witness ==
    /\ Len(call.schedulers) = 2
    /\ ~call.schedulers[1].running
    /\ call.schedulers[2].running
    /\ call.schedulers[2].jobs = << "check_due_winterns" >>
    /\ get_scheduler(call) = 2

\* C36: seen_content is append-only under the orchestrator: whatever the
\* runs of a wintern do, one after the other or overlapping, the hashes
\* get_seen_hashes returns to a session (those of committed rows) are never
\* fewer after a step than before it, a committed row is never removed (an
\* uncommitted one goes only when its transaction is undone, with every
\* other row of that transaction), and a row that stays keeps its run id,
\* source tag, URL and timestamp even when a later insert names its key.
Undone(row) ==
    /\ runs[row.run_id].tx # "committed"
    /\ \A other \in seen' : other.run_id # row.run_id

C36_SeenContentAppendOnly ==
    [][ /\ \A w \in Winterns : CommittedHashes(w) \subseteq CommittedHashes(w)'
        /\ \A row \in seen : row \in seen' \/ Undone(row)
        /\ \A row \in seen : \A other \in seen' :
             ( /\ other.wintern_id = row.wintern_id
               /\ other.content_hash = row.content_hash
               /\ ~Undone(row) )
             => other = row ]_<< seen, runs >>

\* Two runs of the wintern have ended, one of them failed; both kept u1 and
\* the insert of the later one met the row of the earlier one, which still
\* carries the earlier run's id.
C36_Witness ==
    /\ Len(runs) = 2
    /\ runs[1].tx = "committed" /\ runs[2].tx = "committed"
    /\ \E r \in {1, 2} : runs[r].status = "failed"
    /\ \E r \in {1, 2} : \E i \in DOMAIN runs[r].batch :
         /\ runs[r].batch[i].url = "u1"
         /\ \E row \in seen : row.source_url = "u1" /\ row.run_id # r
    /\ Cardinality({ row \in seen : row.source_url = "u1" }) = 1

\* C37: execute_wintern and the commit of its caller never change a
\* wintern's context, schedule, is_active flag or source and delivery
\* configurations, on any exit path: a step that is no update_wintern or
\* delete_wintern request leaves these fields of every wintern as they were.
FrameFields(w) ==
    << w.context, w.cron_schedule, w.is_active, w.source_configs, w.delivery_configs >>

C37_OnlyNextRunAtWritten ==
    [][ budget'.updates = budget.updates =>
          \A w \in Winterns : FrameFields(winterns'[w]) = FrameFields(winterns[w])
      ]_<< winterns, budget >>

\* A scheduled run that failed has been committed, and the wintern, still
\* active and with its schedule, carries a next_run_at later than the call.
C37_Witness ==
    \E r \in DOMAIN runs :
        /\ runs[r].by = "sched"
        /\ runs[r].tx = "committed"
        /\ runs[r].status = "failed"
        /\ winterns[runs[r].wintern_id].is_active
        /\ winterns[runs[r].wintern_id].cron_schedule = EveryCron
        /\ \E n \in winterns[runs[r].wintern_id].next_run_at : n > runs[r].called_at

\* C39: the writes of a run become visible at once: while execute_wintern
\* is at work on a run the transaction of that run is open, and every run
\* whose transaction has been committed is completed or failed, never
\* pending or running.
InProgress(r) == \E t \in Tasks : Busy(t) /\ ~Exited(t) /\ ex[t].run = r

InterpreterOrCurator == { "interpreter failed", "curator failed" }

RowsOf(r) == { row \in seen : row.run_id = r }

C40_FailedBeforeRecordAddsNoRows ==
    /\ \A t \in Tasks : (Busy(t) /\ ex[t].exc_msg \in InterpreterOrCurator) =>
           RowsOf(ex[t].run) = {}
    /\ \A r \in DOMAIN runs : runs[r].error_message \in InterpreterOrCurator =>
           RowsOf(r) = {}
    /\ \A t \in Tasks :
           ( /\ ex[t].run = 2
             /\ ex[t].pc \in { "curate", "record", "compose", "deliver", "complete" }
             /\ runs[1].error_message \in InterpreterOrCurator
             /\ runs[1].tx # "open" )
           => \A i \in DOMAIN runs[1].found :
                  (\E k \in DOMAIN runs[2].found : runs[2].found[k] = runs[1].found[i])
                      => runs[1].found[i] \in UrlsOf(ex[t].new_results)

\* The first run found u1 and failed in the curator; the second run found
\* u1 again, kept it as new, and its row for u1 is the only one.
C40_Witness ==
    /\ Len(runs) = 2
    /\ runs[1].error_message = "curator failed"
    /\ runs[1].tx = "committed"
    /\ \E i \in DOMAIN runs[1].found : runs[1].found[i] = "u1"
    /\ runs[2].status = "completed"
    /\ \E i \in DOMAIN runs[2].batch : runs[2].batch[i].url = "u1"
    /\ \E row \in seen : row.source_url = "u1" /\ row.run_id = 2
    /\ RowsOf(1) = {}
====
